---- MODULE Spec2Model ----
(***************************************************************************)
(* Reconciliation engine and resumable batch processors of the HeatSeaker  *)
(* spreadsheet automation (04-DatabaseSync.js, TEE formula sync, ROI       *)
(* historical processing, 08-HistoricalIngestion.js).                      *)
(*                                                                         *)
(* Strings that the code parses (race ids, the track-code cell, ISO dates) *)
(* are sequences of one-character strings, so that trim, toUpperCase, the  *)
(* race-id regular expression and parseInt are computed, not assumed.      *)
(***************************************************************************)
EXTENDS Integers, Sequences, FiniteSets, TLC

VARIABLES
    databaseSheet,  \* DATABASE sheet: columns A-F, G, L-M, O-R from row 2 on
    lastSync,       \* date and returned summary of the last syncDatabaseSheetForDate_ call
    backend,        \* what the entries and winners endpoints hold for each date
    batch,          \* the job whose handlers the operator runs in this behaviour
    allSheets,      \* names of the sheets of the workbook, in tab order
    teeProgress,    \* TEE!BS1, the session marker of syncTeeFormulas
    syncFlag,       \* BS2 of every sheet
    sheetFormulas,  \* for every sheet, whether its formulas are those of TEE
    now,            \* what new Date().getTime() returns to the next markSyncInProgress_
    teeRun,         \* locals and summary of the last TEE formula sync handler call
    sheetBlocks,    \* race blocks (entries, winner, metadata) of every sheet
    roiRun,         \* locals and summary of the last ROI historical handler call
    ag2,            \* AG2, the ingestion marker of every sheet
    ingestRun,      \* locals and summary of the last historical ingestion handler call
    config,         \* script property API_KEY (set or not) and cell DATABASE!J1
    totalsSheet,    \* TOTALS sheet: the rows from TOTALS_START_ROW on
    call,           \* the last call of an entry point of the daily jobs and what it returned
    request         \* the entry or the request data that a caller of 02-Utilities.js has assembled

vars == <<databaseSheet, lastSync, backend, batch, allSheets, teeProgress, syncFlag,
          sheetFormulas, now, teeRun, sheetBlocks, roiRun, ag2, ingestRun,
          config, totalsSheet, call, request>>

dbVars       == <<databaseSheet, lastSync, backend>>
workbookVars == <<allSheets, syncFlag, sheetFormulas, sheetBlocks, ag2>>
teeVars      == <<teeProgress, now, teeRun>>
runVars      == <<teeRun, roiRun, ingestRun>>
dailyVars    == <<config, totalsSheet, call, request>>

-----------------------------------------------------------------------------
(* Bounds of the model *)

MaxRows == 2        \* rows 2..MaxRows+1 of DATABASE may be filled
MaxEntries == 2     \* entries in one API response
MaxWinners == 1     \* winners in one API response
MaxSessions == 2    \* sessions of syncTeeFormulas that may be started

-----------------------------------------------------------------------------
(* Characters and strings *)

Digits == <<"0", "1", "2", "3", "4", "5", "6", "7", "8", "9">>
UpperAlpha == <<"A", "B", "C", "D", "E", "F", "G", "H", "I", "J", "K", "L", "M",
                "N", "O", "P", "Q", "R", "S", "T", "U", "V", "W", "X", "Y", "Z">>
LowerAlpha == <<"a", "b", "c", "d", "e", "f", "g", "h", "i", "j", "k", "l", "m",
                "n", "o", "p", "q", "r", "s", "t", "u", "v", "w", "x", "y", "z">>
Whitespace == {" ", "\t"}

Range(s) == {s[i] : i \in DOMAIN s}
Max(a, b) == IF a >= b THEN a ELSE b

\* The least and the greatest element of a non-empty set of numbers
First(S) == CHOOSE i \in S : \A j \in S : i <= j
Last(S)  == CHOOSE i \in S : \A j \in S : i >= j

DigitChars == Range(Digits)
LowerChars == Range(LowerAlpha)
AlnumChars == Range(Digits) \cup Range(UpperAlpha) \cup Range(LowerAlpha)
DigitValue == [c \in DigitChars |-> (CHOOSE i \in DOMAIN Digits : Digits[i] = c) - 1]
UpperOf    == [c \in LowerChars |->
                 UpperAlpha[CHOOSE i \in DOMAIN LowerAlpha : LowerAlpha[i] = c]]

IsDigit(c) == c \in DigitChars
IsAlnum(c) == c \in AlnumChars
DigitVal(c) == DigitValue[c]

\* String.prototype.toUpperCase
UpperChar(c) == IF c \in LowerChars THEN UpperOf[c] ELSE c
toUpperCase(s) == [i \in DOMAIN s |-> UpperChar(s[i])]

\* String.prototype.trimStart and trimEnd
RECURSIVE trimStart(_)
trimStart(s) ==
    IF s # <<>> /\ s[1] \in Whitespace THEN trimStart(Tail(s)) ELSE s

RECURSIVE trimEnd(_)
trimEnd(s) ==
    IF s # <<>> /\ s[Len(s)] \in Whitespace THEN trimEnd(SubSeq(s, 1, Len(s) - 1)) ELSE s

\* String.prototype.trim
trim(s) == trimEnd(trimStart(s))

\* parseInt(digits, 10) on a string of decimal digits
RECURSIVE parseInt(_)
parseInt(s) ==
    IF s = <<>> THEN 0
    ELSE 10 * parseInt(SubSeq(s, 1, Len(s) - 1)) + DigitVal(s[Len(s)])

\* String(n) of a non-negative integer, as used by template literals
RECURSIVE numToString(_)
numToString(n) ==
    IF n < 10 THEN <<Digits[n + 1]>>
    ELSE numToString(n \div 10) \o <<Digits[(n % 10) + 1]>>

\* isoDate.replace(/-/g, '')
RECURSIVE removeDashes(_)
removeDashes(s) ==
    IF s = <<>> THEN <<>>
    ELSE (IF Head(s) = "-" THEN <<>> ELSE <<Head(s)>>) \o removeDashes(Tail(s))

-----------------------------------------------------------------------------
(* Program constants *)

MIN_RACE_NUMBER == 3
MAX_RACE_NUMBER == 15
HORSE_NUMBER_MAX == 16

\* Cell values.  A numeric cell holds a number >= 0 or is empty (Blank);
\* a JSON number that is null or missing is ApiNull.  A text cell holds a
\* character sequence, '' being <<>>; a JSON string that is null is NullStr.
Blank == -1
ApiNull == -2
NullStr == <<"null">>

\* A checkbox-like cell is empty or holds the boolean true or false; text
\* typed into it is kept as text
EmptyCell == ""
TrueCell  == "true"
FalseCell == "false"

\* null in the script
JsNull == ApiNull

\* DATABASE!J1 as typed by the operator
TRACK_CODE_CELL == <<"A", "Q", "U">>

\* getTrackCodeFromDatabaseSheet_ throws if the display value of J1 is empty
TrackCodeMissing == config.trackCodeCell = <<>>

\* getTrackCodeFromDatabaseSheet_: value.toUpperCase().trim()
getTrackCodeFromDatabaseSheet_ == trim(toUpperCase(config.trackCodeCell))

-----------------------------------------------------------------------------
(* Race ids *)

NoMatch == [matched |-> FALSE, trackCode |-> <<>>, dateToken |-> <<>>, raceNumber |-> 0]

\* raceId.trim().match(/^([A-Z0-9]+)_(\d{8})_(\d{1,2})$/i)
parseRaceIdComponents_(raceId) ==
    LET t  == trim(raceId)
        us == {i \in DOMAIN t : t[i] = "_"}
    IN  IF Cardinality(us) # 2 THEN NoMatch
        ELSE LET i1 == CHOOSE i \in us : \A j \in us : i <= j
                 i2 == CHOOSE i \in us : \A j \in us : i >= j
                 p1 == SubSeq(t, 1, i1 - 1)
                 p2 == SubSeq(t, i1 + 1, i2 - 1)
                 p3 == SubSeq(t, i2 + 1, Len(t))
             IN  IF /\ Len(p1) >= 1 /\ \A i \in DOMAIN p1 : IsAlnum(p1[i])
                    /\ Len(p2) = 8  /\ \A i \in DOMAIN p2 : IsDigit(p2[i])
                    /\ Len(p3) \in 1..2 /\ \A i \in DOMAIN p3 : IsDigit(p3[i])
                 THEN [matched |-> TRUE, trackCode |-> toUpperCase(p1),
                       dateToken |-> p2, raceNumber |-> parseInt(p3)]
                 ELSE NoMatch

\* As PassesFilter, but without the upper end of the race-number window
PassesFilter_NoUpperEnd(raceId, trackCode, dateToken) ==
    LET components == parseRaceIdComponents_(raceId)
    IN  /\ components.matched
        /\ ~ \/ toUpperCase(components.trackCode) # toUpperCase(trackCode)
             \/ components.dateToken # dateToken
             \/ components.raceNumber < MIN_RACE_NUMBER

\* The candidate filter applied to entries and to winners
PassesFilter(raceId, trackCode, dateToken) ==
    LET components == parseRaceIdComponents_(raceId)
    IN  /\ components.matched
        /\ ~ \/ toUpperCase(components.trackCode) # toUpperCase(trackCode)
             \/ components.dateToken # dateToken
             \/ components.raceNumber < MIN_RACE_NUMBER
             \/ components.raceNumber > MAX_RACE_NUMBER

\* `${entry.race_id}|${entry.horse_number}`
compositeKey(raceId, horseNumber) == raceId \o <<"|">> \o numToString(horseNumber)

-----------------------------------------------------------------------------
(* The DATABASE sheet.  Index i of a column group is sheet row i + 1. *)

EmptyEntryRow  == [race_id |-> <<>>, horse_number |-> Blank, ml |-> Blank,
                   live_odds |-> Blank, correct_p3 |-> Blank, double |-> Blank]
EmptyWinnerRow == [race_id |-> <<>>, winning_horse_number |-> Blank]
EmptyMetaRow   == [race_id |-> <<>>, age |-> <<>>, race_type |-> <<>>, purse |-> <<>>]

EmptySheet == [A_F |-> <<>>, G |-> <<>>, L_M |-> <<>>, O_R |-> <<>>]

\* Index of the last element of a column group that is not empty (0 if none)
LastFilled(col, empty) ==
    LET filled == {i \in DOMAIN col : col[i] # empty}
    IN  IF filled = {} THEN 0 ELSE CHOOSE i \in filled : \A j \in filled : i >= j

\* As LastKeyed, but the column is taken to be empty
LastKeyed_None(col) == 0

\* Index of the last element whose key cell (race_id) is not empty (0 if none)
LastKeyed(col) ==
    LET filled == {i \in DOMAIN col : col[i].race_id # <<>>}
    IN  IF filled = {} THEN 0 ELSE CHOOSE i \in filled : \A j \in filled : i >= j

\* Sheet.getLastRow(): the last row holding content in any column; row 1
\* holds the headers and the track code cell J1
getLastRow(sheet) ==
    1 + Max(Max(LastFilled(sheet.A_F, EmptyEntryRow), LastFilled(sheet.G, EmptyCell)),
            Max(LastFilled(sheet.L_M, EmptyWinnerRow), LastFilled(sheet.O_R, EmptyMetaRow)))

\* getRange(2, col, lastRow - 1, n).getValues() of one column group
ReadRows(col, empty, lastRow) ==
    [i \in 1..(lastRow - 1) |-> IF i \in DOMAIN col THEN col[i] ELSE empty]

\* getRange(startRow, col, Len(rows), n).setValues(rows) on one column group
WriteRows(col, empty, startRow, rows) ==
    LET first == startRow - 1
        last  == first + Len(rows) - 1
        len   == Max(Len(col), last)
    IN  [i \in 1..len |-> IF i \in first..last THEN rows[i - first + 1]
                          ELSE IF i \in DOMAIN col THEN col[i] ELSE empty]

\* As buildDatabaseKeySet_, but the key range starts one row too low
buildDatabaseKeySet_FromRow3(sheet) ==
    LET lastRow == getLastRow(sheet)
    IN  IF lastRow < 2 THEN {}
        ELSE LET keyValues == ReadRows(sheet.A_F, EmptyEntryRow, lastRow)
             IN  {compositeKey(keyValues[i].race_id, keyValues[i].horse_number) :
                    i \in {j \in DOMAIN keyValues :
                             /\ j > 1
                             /\ keyValues[j].race_id # <<>>
                             /\ keyValues[j].horse_number # Blank}}

buildDatabaseKeySet_(sheet) ==
    LET lastRow == getLastRow(sheet)
    IN  IF lastRow < 2 THEN {}
        ELSE LET keyValues == ReadRows(sheet.A_F, EmptyEntryRow, lastRow)
             IN  {compositeKey(keyValues[i].race_id, keyValues[i].horse_number) :
                    i \in {j \in DOMAIN keyValues :
                             /\ keyValues[j].race_id # <<>>
                             /\ keyValues[j].horse_number # Blank}}

buildRaceMetadataKeySet_(sheet) ==
    LET lastRow == getLastRow(sheet)
    IN  IF lastRow < 2 THEN {}
        ELSE LET raceIdValues == ReadRows(sheet.O_R, EmptyMetaRow, lastRow)
             IN  {trim(raceIdValues[i].race_id) :
                    i \in {j \in DOMAIN raceIdValues :
                             /\ raceIdValues[j].race_id # <<>>
                             /\ trim(raceIdValues[j].race_id) # <<>>}}

buildWinnerKeySet_(sheet) ==
    LET lastRow == getLastRow(sheet)
    IN  IF lastRow < 2 THEN {}
        ELSE LET raceIdValues == ReadRows(sheet.L_M, EmptyWinnerRow, lastRow)
             IN  {trim(raceIdValues[i].race_id) :
                    i \in {j \in DOMAIN raceIdValues :
                             /\ raceIdValues[j].race_id # <<>>
                             /\ trim(raceIdValues[j].race_id) # <<>>}}

-----------------------------------------------------------------------------
(* syncDatabaseSheetForDate_ *)

\* entry.age !== null && entry.age !== undefined ? String(entry.age) : null
StrOrNull(v) == IF v = NullStr THEN NullStr ELSE v
\* a string in a boolean context
Truthy(v) == v # NullStr /\ v # <<>>
\* value || ''
OrEmpty(v) == IF Truthy(v) THEN v ELSE <<>>
\* entry.ml ?? ''
NumOrBlank(v) == IF v = ApiNull THEN Blank ELSE v

\* The forEach over apiEntries (filter, metadata capture, key check, queueing)
RECURSIVE ProcessEntries(_, _, _, _)
ProcessEntries(apiEntries, trackCode, dateToken, acc) ==
    IF apiEntries = <<>> THEN acc
    ELSE
      LET entry == Head(apiEntries)
          rest  == Tail(apiEntries)
      IN  IF ~ PassesFilter(entry.race_id, trackCode, dateToken)
          THEN ProcessEntries(rest, trackCode, dateToken,
                              [acc EXCEPT !.skipped = @ + 1])
          ELSE
            LET age      == StrOrNull(entry.age)
                raceType == StrOrNull(entry.race_type)
                purse    == StrOrNull(entry.purse)
                known    == \E i \in DOMAIN acc.raceMetadataMap :
                               acc.raceMetadataMap[i].race_id = entry.race_id
                metaMap  ==
                    IF ~ known /\ (Truthy(age) \/ Truthy(raceType) \/ Truthy(purse))
                    THEN Append(acc.raceMetadataMap,
                                [race_id |-> entry.race_id, age |-> OrEmpty(age),
                                 race_type |-> OrEmpty(raceType), purse |-> OrEmpty(purse)])
                    ELSE acc.raceMetadataMap
                key      == compositeKey(entry.race_id, entry.horse_number)
            IN  IF key \in acc.existingKeys
                THEN ProcessEntries(rest, trackCode, dateToken,
                                    [acc EXCEPT !.skipped = @ + 1,
                                                !.raceMetadataMap = metaMap])
                ELSE ProcessEntries(rest, trackCode, dateToken,
                       [acc EXCEPT
                          !.raceMetadataMap = metaMap,
                          !.existingKeys = @ \cup {key},
                          !.rowsToAppend = Append(@,
                              [race_id |-> entry.race_id,
                               horse_number |-> entry.horse_number,
                               ml |-> NumOrBlank(entry.ml),
                               live_odds |-> NumOrBlank(entry.live_odds),
                               correct_p3 |-> NumOrBlank(entry.correct_p3),
                               double |-> NumOrBlank(entry.double)])])

\* Object.values(raceMetadataMap).forEach: queue the races not yet in column O
RECURSIVE ProcessMetadata(_, _, _)
ProcessMetadata(raceMetadataMap, existingRaceKeys, queued) ==
    IF raceMetadataMap = <<>> THEN queued
    ELSE LET raceMeta == Head(raceMetadataMap)
         IN  IF raceMeta.race_id \notin existingRaceKeys
             THEN ProcessMetadata(Tail(raceMetadataMap),
                                  existingRaceKeys \cup {raceMeta.race_id},
                                  Append(queued, raceMeta))
             ELSE ProcessMetadata(Tail(raceMetadataMap), existingRaceKeys, queued)

\* The forEach over apiWinners
RECURSIVE ProcessWinners(_, _, _, _, _)
ProcessWinners(apiWinners, trackCode, dateToken, existingWinnerKeys, queued) ==
    IF apiWinners = <<>> THEN queued
    ELSE
      LET winner == Head(apiWinners)
          rest   == Tail(apiWinners)
      IN  IF ~ PassesFilter(winner.race_id, trackCode, dateToken)
          THEN ProcessWinners(rest, trackCode, dateToken, existingWinnerKeys, queued)
          ELSE IF /\ winner.race_id \notin existingWinnerKeys
                  /\ winner.winning_horse_number \notin {ApiNull, 0}
               THEN ProcessWinners(rest, trackCode, dateToken,
                                   existingWinnerKeys \cup {winner.race_id},
                                   Append(queued,
                                     [race_id |-> winner.race_id,
                                      winning_horse_number |-> winner.winning_horse_number]))
               ELSE ProcessWinners(rest, trackCode, dateToken, existingWinnerKeys, queued)

\* fetchEntriesForTrack_ and fetchWinnersForTrack_ throw if the script
\* properties hold no API_KEY
ApiKeyMissing == ~ config.apiKey

\* As EntriesFetchThrows, but without the check of payload.success
EntriesFetchThrows_Non200(resp) == resp.code # 200

\* As fetchWinnersForTrack_, but the body is read whatever the response says
fetchWinnersForTrack_Body(resp) == resp.winners

\* fetchEntriesForTrack_: throws unless the response is 200 with success:true
EntriesFetchThrows(resp) == resp.code # 200 \/ ~ resp.success
\* fetchWinnersForTrack_: a failing response degrades to no winners
fetchWinnersForTrack_(resp) ==
    IF resp.code # 200 \/ ~ resp.success THEN <<>> ELSE resp.winners

NoSync == [called |-> FALSE, threw |-> FALSE, isoDate |-> <<>>,
           fetched |-> 0, appended |-> 0, skipped |-> 0,
           racesMetadataAppended |-> 0, winnersAppended |-> 0]

\* Entries are written after the last row of the sheet, never above row 2
AppendEntryRows(sheet, rowsToAppend) ==
    IF rowsToAppend # <<>>
    THEN LET startRow == Max(getLastRow(sheet) + 1, 2)
         IN  [sheet EXCEPT !.A_F = WriteRows(@, EmptyEntryRow, startRow, rowsToAppend)]
    ELSE sheet

\* Race metadata is written after the last keyed row of columns O:R
AppendMetadataRows(sheet, raceMetadataToAppend) ==
    IF raceMetadataToAppend # <<>>
    THEN LET lastRow == getLastRow(sheet)
             metadataStartRow ==
                 IF lastRow >= 2
                 THEN 2 + LastKeyed(ReadRows(sheet.O_R, EmptyMetaRow, lastRow))
                 ELSE 2
         IN  [sheet EXCEPT !.O_R =
                 WriteRows(@, EmptyMetaRow, metadataStartRow, raceMetadataToAppend)]
    ELSE sheet

\* Winners are written after the last keyed row of columns L:M
AppendWinnerRows(sheet, winnersToAppend) ==
    IF winnersToAppend # <<>>
    THEN LET lastRow == getLastRow(sheet)
             winnersStartRow ==
                 IF lastRow >= 2
                 THEN 2 + LastKeyed(ReadRows(sheet.L_M, EmptyWinnerRow, lastRow))
                 ELSE 2
         IN  [sheet EXCEPT !.L_M =
                 WriteRows(@, EmptyWinnerRow, winnersStartRow, winnersToAppend)]
    ELSE sheet

\* Counters returned by a sync that reached the backend
SyncSummary(isoDate, fetched, appended, skipped, racesMetadataAppended, winnersAppended) ==
    [called |-> TRUE, threw |-> FALSE, isoDate |-> isoDate,
     fetched |-> fetched, appended |-> appended, skipped |-> skipped,
     racesMetadataAppended |-> racesMetadataAppended,
     winnersAppended |-> winnersAppended]

\* The three appends of one sync and its counters
SyncWrite(sheet, isoDate, fetched, acc, raceMetadataToAppend, winnersToAppend) ==
    [sheet |-> AppendWinnerRows(
                   AppendMetadataRows(AppendEntryRows(sheet, acc.rowsToAppend),
                                      raceMetadataToAppend),
                   winnersToAppend),
     summary |-> SyncSummary(isoDate, fetched, Len(acc.rowsToAppend), acc.skipped,
                             Len(raceMetadataToAppend), Len(winnersToAppend))]

\* Body of syncDatabaseSheetForDate_ once both endpoints have answered
SyncResult(sheet, isoDate, trackCode, apiEntries, apiWinners) ==
    IF apiEntries = <<>> /\ apiWinners = <<>>
    THEN [sheet |-> sheet, summary |-> SyncSummary(isoDate, 0, 0, 0, 0, 0)]
    ELSE LET dateToken == removeDashes(isoDate)
             acc == ProcessEntries(apiEntries, trackCode, dateToken,
                        [existingKeys |-> buildDatabaseKeySet_(sheet),
                         rowsToAppend |-> <<>>, skipped |-> 0,
                         raceMetadataMap |-> <<>>])
         IN  SyncWrite(sheet, isoDate, Len(apiEntries), acc,
                 ProcessMetadata(acc.raceMetadataMap, buildRaceMetadataKeySet_(sheet), <<>>),
                 ProcessWinners(apiWinners, trackCode, dateToken,
                                buildWinnerKeySet_(sheet), <<>>))

\* All sequences over dom of length 0..n
SeqUpTo(dom, n) == UNION {[1..k -> dom] : k \in 0..n}

\* One call of syncDatabaseSheetForDate_ with the responses of the two endpoints
syncDatabaseSheetForDate_(isoDate, entriesResp, winnersResp) ==
    /\ IF ApiKeyMissing \/ EntriesFetchThrows(entriesResp)
       THEN /\ databaseSheet' = databaseSheet
            /\ lastSync' = [NoSync EXCEPT !.called = TRUE, !.threw = TRUE,
                                          !.isoDate = isoDate]
       ELSE LET r == SyncResult(databaseSheet, isoDate, getTrackCodeFromDatabaseSheet_,
                                entriesResp.entries, fetchWinnersForTrack_(winnersResp))
            IN  /\ getLastRow(r.sheet) <= MaxRows + 1
                /\ databaseSheet' = r.sheet
                /\ lastSync' = r.summary
    /\ UNCHANGED <<batch, workbookVars, teeProgress, now, runVars, dailyVars>>

-----------------------------------------------------------------------------
(* The workbook *)

TEE_SHEET_NAME            == <<"T", "E", "E">>
DATABASE_SHEET_NAME       == <<"D", "A", "T", "A", "B", "A", "S", "E">>
TOTALS_SHEET_NAME         == <<"T", "O", "T", "A", "L", "S">>
UTILITY_SHEET_NAME        == <<"U", "T", "I", "L", "I", "T", "Y">>
TEMPLATE_SHEET_NAME       == <<"T", "E", "M", "P", "L", "A", "T", "E">>
RATIO_TEMPLATE_SHEET_NAME == <<"R", "A", "T", "I", "O", " ">> \o TEMPLATE_SHEET_NAME
NOTES_SHEET_NAME          == <<"N", "o", "t", "e", "s">>

\* The elements of s that are in keep, in the order of s
RECURSIVE FilterSeq(_, _)
FilterSeq(s, keep) ==
    IF s = <<>> THEN <<>>
    ELSE (IF Head(s) \in keep THEN <<Head(s)>> ELSE <<>>) \o FilterSeq(Tail(s), keep)

\* /^\d{2}\/\d{2}\/\d{2}$/.test(sheetName)
datePattern(sheetName) ==
    /\ Len(sheetName) = 8
    /\ \A i \in {1, 2, 4, 5, 7, 8} : IsDigit(sheetName[i])
    /\ sheetName[3] = "/"
    /\ sheetName[6] = "/"

skipNames == {TOTALS_SHEET_NAME, TEE_SHEET_NAME, DATABASE_SHEET_NAME, UTILITY_SHEET_NAME,
              TEMPLATE_SHEET_NAME, RATIO_TEMPLATE_SHEET_NAME}

\* The date-named sheets (MM/dd/yy) in tab order
getDateSheets_(sheets) ==
    FilterSeq(sheets, {n \in Range(sheets) :
                          toUpperCase(n) \notin skipNames /\ datePattern(n)})

-----------------------------------------------------------------------------
(* syncTeeFormulas and clearTeeFormulaSyncProgress *)

TEE_MAX_EXECUTION_TIME_MS == 330000

\* getProgressInfo_ on the value of TEE!BS1 (empty, or a number)
getProgressInfo_(progressValue) ==
    IF progressValue = Blank \/ progressValue = 0
    THEN [isInProgress |-> FALSE, startTime |-> JsNull]
    ELSE [isInProgress |-> TRUE, startTime |-> progressValue]

\* markSyncInProgress_: BS1 takes the time of the call
markSyncInProgress_(time) == time

\* As clearSyncProgress_, but the progress cell is left as it is
clearSyncProgress_KeepsMarker(progressValue) == progressValue

\* clearSyncProgress_: clearContent() on BS1
clearSyncProgress_(progressValue) == Blank

\* As isSheetSynced_, but any flag that is set counts
isSheetSynced_AnyFlag(flagValue, syncStartTime) ==
    IF flagValue = Blank \/ flagValue = 0 THEN FALSE
    ELSE TRUE

\* As isSheetSynced_, but no flag ever counts
isSheetSynced_Never(flagValue, syncStartTime) == FALSE

\* isSheetSynced_ on the value of BS2
isSheetSynced_(flagValue, syncStartTime) ==
    IF flagValue = Blank \/ flagValue = 0 THEN FALSE
    ELSE flagValue = syncStartTime

\* markSheetAsSynced_: setValue(syncStartTime); a null value empties the cell
markSheetAsSynced_(syncStartTime) ==
    IF syncStartTime = JsNull THEN Blank ELSE syncStartTime

\* clearSheetSyncFlag_: clearContent() on BS2
clearSheetSyncFlag_(flagValue) == Blank

\* As TimeLimitReached, but the ceiling itself is still within the limit
TimeLimitReached_Above(elapsed, limit) == elapsed > limit

\* elapsed >= MAX_EXECUTION_TIME_MS
TimeLimitReached(elapsed, limit) == elapsed >= limit

NoTeeRun ==
    [handler |-> "none",
     previous |-> [handler |-> "none", errors |-> <<>>, markersFound |-> 0],
     markersFound |-> 0, isResuming |-> FALSE, startTime |-> JsNull, looped |-> FALSE,
     sheetsToProcess |-> <<>>, checks |-> <<>>, attempted |-> <<>>, processed |-> <<>>,
     errors |-> <<>>, cellErrors |-> <<>>, timedOut |-> FALSE, cleared |-> FALSE,
     totalSheets |-> 0, skippedSheets |-> 0]

\* What a handler call remembers of the call before it.  markersFound is
\* the number of completion markers that a reset found set.
Previous(run) ==
    [handler |-> run.handler, errors |-> run.errors, markersFound |-> run.markersFound]

\* updateFormulasInSheet_: every setFormula and setFormulas call is inside a
\* try/catch of its own, so a sheet whose cells could not be written keeps
\* its formulas and the function returns normally
updateFormulasInSheet_(matchesTee, cellErrors) ==
    IF cellErrors THEN matchesTee ELSE TRUE

\* The for loop over sheetsToProcess from index i on.  outcome[sheet] tells
\* how long updateFormulasInSheet_ takes on the sheet, whether it throws and
\* whether writes of cells failed inside it; st.checks collects the elapsed
\* time found by each time-limit check.
RECURSIVE TeeLoop(_, _, _, _, _)
RECURSIVE TeeIteration(_, _, _, _, _)

\* The loop from index i on; the locals reached so far are computed once
TeeLoop(sheetsToProcess, i, syncStartTime, outcome, locals) ==
    CHOOSE result \in {TeeIteration(sheetsToProcess, i, syncStartTime, outcome, st) :
                         st \in {locals}} : TRUE

TeeIteration(sheetsToProcess, i, syncStartTime, outcome, st) ==
    IF i > Len(sheetsToProcess) THEN st
    ELSE IF TimeLimitReached(st.elapsed, TEE_MAX_EXECUTION_TIME_MS)
    THEN [st EXCEPT !.checks = Append(@, st.elapsed), !.timedOut = TRUE]
    ELSE IF outcome[sheetsToProcess[i]].throws
    THEN TeeLoop(sheetsToProcess, i + 1, syncStartTime, outcome,
                 [st EXCEPT !.checks = Append(@, st.elapsed),
                            !.attempted = Append(@, sheetsToProcess[i]),
                            !.elapsed = @ + outcome[sheetsToProcess[i]].ms,
                            !.errors = Append(@, sheetsToProcess[i])])
    ELSE TeeLoop(sheetsToProcess, i + 1, syncStartTime, outcome,
                 [st EXCEPT !.checks = Append(@, st.elapsed),
                            !.attempted = Append(@, sheetsToProcess[i]),
                            !.elapsed = @ + outcome[sheetsToProcess[i]].ms,
                            !.sheetFormulas[sheetsToProcess[i]] =
                                updateFormulasInSheet_(@, outcome[sheetsToProcess[i]].cellErrors),
                            !.syncFlag[sheetsToProcess[i]] = markSheetAsSynced_(syncStartTime),
                            !.cellErrors = IF outcome[sheetsToProcess[i]].cellErrors
                                           THEN Append(@, sheetsToProcess[i]) ELSE @,
                            !.processed = Append(@, sheetsToProcess[i])])

\* dateSheets.filter(sheet => !isSheetSynced_(sheet, progressInfo.startTime)) when resuming
TeeSheetsToProcess(dateSheets, progressInfo) ==
    IF progressInfo.isInProgress
    THEN FilterSeq(dateSheets,
                   {n \in Range(dateSheets) :
                       ~ isSheetSynced_(syncFlag[n], progressInfo.startTime)})
    ELSE dateSheets

\* The sheet loop of syncTeeFormulas and what follows it
TeeProcess(dateSheets, progressInfo, marked, sheetsToProcess, setupMs, outcome) ==
    \E st \in {TeeLoop(sheetsToProcess, 1, progressInfo.startTime, outcome,
                        [elapsed |-> setupMs, syncFlag |-> syncFlag,
                         sheetFormulas |-> sheetFormulas, checks |-> <<>>,
                         attempted |-> <<>>, processed |-> <<>>, errors |-> <<>>,
                         cellErrors |-> <<>>, timedOut |-> FALSE])} :
        /\ syncFlag' = st.syncFlag
        /\ sheetFormulas' = st.sheetFormulas
        /\ teeProgress' = IF Len(st.processed) = Len(sheetsToProcess)
                          THEN clearSyncProgress_(marked)
                          ELSE marked
        /\ teeRun' = [handler |-> "syncTeeFormulas", previous |-> Previous(teeRun),
                      markersFound |-> 0, isResuming |-> progressInfo.isInProgress,
                      startTime |-> progressInfo.startTime, looped |-> TRUE,
                      sheetsToProcess |-> sheetsToProcess, checks |-> st.checks,
                      attempted |-> st.attempted, processed |-> st.processed,
                      errors |-> st.errors, cellErrors |-> st.cellErrors,
                      timedOut |-> st.timedOut,
                      cleared |-> Len(st.processed) = Len(sheetsToProcess),
                      totalSheets |-> Len(dateSheets),
                      skippedSheets |-> Len(dateSheets) - Len(sheetsToProcess)]

\* One call of syncTeeFormulas.  setupMs is the time spent before the loop,
\* teeFormulas the number of formula cells found in TEE.
syncTeeFormulas(setupMs, teeFormulas, outcome) ==
    \E dateSheets \in {getDateSheets_(allSheets)},
       progressInfo \in {getProgressInfo_(teeProgress)} :
      \E marked \in {IF progressInfo.isInProgress THEN teeProgress
                      ELSE markSyncInProgress_(now)},
         sheetsToProcess \in {TeeSheetsToProcess(dateSheets, progressInfo)} :
        /\ IF Len(dateSheets) = 0
           THEN /\ teeRun' = [NoTeeRun EXCEPT !.handler = "syncTeeFormulas",
                                              !.previous = Previous(teeRun)]
                /\ UNCHANGED <<teeProgress, syncFlag, sheetFormulas, now>>
           ELSE /\ progressInfo.isInProgress \/ now <= MaxSessions
                /\ now' = IF progressInfo.isInProgress THEN now ELSE now + 1
                /\ IF teeFormulas = 0
                   THEN /\ teeProgress' = clearSyncProgress_(marked)
                        /\ teeRun' = [NoTeeRun EXCEPT
                                        !.handler = "syncTeeFormulas",
                                        !.previous = Previous(teeRun),
                                        !.isResuming = progressInfo.isInProgress,
                                        !.startTime = progressInfo.startTime]
                        /\ UNCHANGED <<syncFlag, sheetFormulas>>
                   ELSE TeeProcess(dateSheets, progressInfo, marked, sheetsToProcess,
                                   setupMs, outcome)
        /\ UNCHANGED <<dbVars, batch, allSheets, sheetBlocks, roiRun, ag2, ingestRun,
                       dailyVars>>

\* updateColumnsInSheet_: every setFormula and setFormulas call is inside a
\* try/catch of its own, so a sheet whose cells could not be written keeps
\* the formulas it had in the columns and the function returns normally
updateColumnsInSheet_(matchesTee, cellErrors) ==
    IF cellErrors THEN matchesTee ELSE TRUE

\* The for loop of syncTeeFormulasColumn over dateSheets from index i on.
\* outcome[sheet] tells how long updateColumnsInSheet_ takes on the sheet and
\* whether writes of cells failed inside it.
RECURSIVE ColumnLoop(_, _, _, _)
ColumnLoop(dateSheets, i, outcome, st) ==
    IF i > Len(dateSheets) THEN st
    ELSE IF TimeLimitReached(st.elapsed, TEE_MAX_EXECUTION_TIME_MS)
    THEN [st EXCEPT !.checks = Append(@, st.elapsed), !.timedOut = TRUE]
    ELSE ColumnLoop(dateSheets, i + 1, outcome,
                    [st EXCEPT !.checks = Append(@, st.elapsed),
                               !.attempted = Append(@, dateSheets[i]),
                               !.elapsed = @ + outcome[dateSheets[i]].ms,
                               !.sheetFormulas[dateSheets[i]] =
                                   updateColumnsInSheet_(@, outcome[dateSheets[i]].cellErrors),
                               !.cellErrors = IF outcome[dateSheets[i]].cellErrors
                                              THEN Append(@, dateSheets[i]) ELSE @,
                               !.processed = Append(@, dateSheets[i])])

\* The sheet loop of syncTeeFormulasColumn and the summary
ColumnProcess(dateSheets, setupMs, outcome) ==
    \E st \in {ColumnLoop(dateSheets, 1, outcome,
                           [elapsed |-> setupMs, sheetFormulas |-> sheetFormulas,
                            checks |-> <<>>, attempted |-> <<>>, processed |-> <<>>,
                            cellErrors |-> <<>>, timedOut |-> FALSE])} :
        /\ sheetFormulas' = st.sheetFormulas
        /\ teeRun' = [NoTeeRun EXCEPT
                        !.handler = "syncTeeFormulasColumn",
                        !.previous = Previous(teeRun),
                        !.looped = TRUE,
                        !.sheetsToProcess = dateSheets,
                        !.checks = st.checks,
                        !.attempted = st.attempted,
                        !.processed = st.processed,
                        !.cellErrors = st.cellErrors,
                        !.timedOut = st.timedOut,
                        !.totalSheets = Len(dateSheets)]

\* One call of syncTeeFormulasColumn(columns).  hasColumns tells whether the
\* argument is given, setupMs is the time spent before the loop, teeFormulas
\* the number of formula cells found in the columns of TEE.  The function
\* reads and writes neither the progress cell BS1 nor the cells BS2.
syncTeeFormulasColumn(hasColumns, setupMs, teeFormulas, outcome) ==
    /\ IF ~ hasColumns \/ Len(getDateSheets_(allSheets)) = 0 \/ teeFormulas = 0
       THEN /\ teeRun' = [NoTeeRun EXCEPT !.handler = "syncTeeFormulasColumn",
                                          !.previous = Previous(teeRun)]
            /\ UNCHANGED sheetFormulas
       ELSE ColumnProcess(getDateSheets_(allSheets), setupMs, outcome)
    /\ UNCHANGED <<dbVars, batch, allSheets, syncFlag, teeProgress, now, sheetBlocks,
                   roiRun, ag2, ingestRun, dailyVars>>

\* One call of clearTeeFormulaSyncProgress
clearTeeFormulaSyncProgress ==
    /\ teeProgress' = clearSyncProgress_(teeProgress)
    /\ syncFlag' = [n \in DOMAIN syncFlag |->
                      IF n \in Range(getDateSheets_(allSheets))
                      THEN clearSheetSyncFlag_(syncFlag[n]) ELSE syncFlag[n]]
    /\ teeRun' = [NoTeeRun EXCEPT
                    !.handler = "clearTeeFormulaSyncProgress",
                    !.previous = Previous(teeRun),
                    !.markersFound = Cardinality({n \in Range(getDateSheets_(allSheets)) :
                                                    syncFlag[n] # Blank})]
    /\ UNCHANGED <<dailyVars, dbVars, batch, allSheets, sheetFormulas, now, sheetBlocks, roiRun,
                   ag2, ingestRun>>

-----------------------------------------------------------------------------
(* processRoiHistorical and clearRoiHistoricalProgress *)

ROI_MAX_EXECUTION_TIME_MS == 330000
ROI_MAX_HORSES == 16

RaceNumbers == MIN_RACE_NUMBER..MAX_RACE_NUMBER

\* A race block of a TEE-shaped sheet: the rows under the header (columns
\* A-E), the winner cell (column B of the header row) and the type, age and
\* purse cells (columns D-F of the metadata row)
EmptyBlock == [rows |-> <<>>, winner |-> Blank, type |-> <<>>, age |-> <<>>, purse |-> <<>>]
EmptyBlocks == [r \in RaceNumbers |-> EmptyBlock]

\* The workbook as one value
Workbook ==
    [allSheets |-> allSheets, syncFlag |-> syncFlag, sheetFormulas |-> sheetFormulas,
     sheetBlocks |-> sheetBlocks, ag2 |-> ag2]

\* teeTemplate.copyTo(ss) followed by setName(sheetName)
CopyTeeTo(wb, sheetName) ==
    [allSheets     |-> Append(wb.allSheets, sheetName),
     syncFlag      |-> [n \in DOMAIN wb.syncFlag \cup {sheetName} |->
                          IF n = sheetName THEN wb.syncFlag[TEE_SHEET_NAME]
                          ELSE wb.syncFlag[n]],
     sheetFormulas |-> [n \in DOMAIN wb.sheetFormulas \cup {sheetName} |->
                          IF n = sheetName THEN wb.sheetFormulas[TEE_SHEET_NAME]
                          ELSE wb.sheetFormulas[n]],
     sheetBlocks   |-> [n \in DOMAIN wb.sheetBlocks \cup {sheetName} |->
                          IF n = sheetName THEN wb.sheetBlocks[TEE_SHEET_NAME]
                          ELSE wb.sheetBlocks[n]],
     ag2           |-> [n \in DOMAIN wb.ag2 \cup {sheetName} |->
                          IF n = sheetName THEN wb.ag2[TEE_SHEET_NAME]
                          ELSE wb.ag2[n]]]

RoiNoMatch == [matched |-> FALSE, dateToken |-> <<>>, raceNumber |-> 0]

\* The three parts of a string around its two underscores against
\* [A-Z0-9]+, \d{8} and \d+
MatchParts(p1, p2, p3) ==
    IF /\ Len(p1) >= 1 /\ \A i \in DOMAIN p1 : IsAlnum(p1[i])
       /\ Len(p2) = 8  /\ \A i \in DOMAIN p2 : IsDigit(p2[i])
       /\ Len(p3) >= 1 /\ \A i \in DOMAIN p3 : IsDigit(p3[i])
    THEN [matched |-> TRUE, dateToken |-> p2, raceNumber |-> parseInt(p3)]
    ELSE RoiNoMatch

\* A string against /^[A-Z0-9]+_(\d{8})_(\d+)$/i, given the positions of its
\* underscores
MatchAround(t, us) ==
    IF Cardinality(us) # 2 THEN RoiNoMatch
    ELSE MatchParts(SubSeq(t, 1, First(us) - 1),
                    SubSeq(t, First(us) + 1, Last(us) - 1),
                    SubSeq(t, Last(us) + 1, Len(t)))

Underscores(t) == {i \in DOMAIN t : t[i] = "_"}

MatchTrimmed(t) == MatchAround(t, Underscores(t))

\* raceId.trim().match(/^[A-Z0-9]+_(\d{8})_(\d+)$/i)
matchDateAndRace_(raceId) == MatchTrimmed(trim(raceId))

\* extracted === true || extracted === 'TRUE' || extracted === 'True'
IsMarkedTrue(cell) == cell \in {TrueCell, "TRUE", "True"}

\* a number cell in a boolean context: value || ''
NumOrEmpty(v) == IF v = Blank \/ v = 0 THEN Blank ELSE v

\* The date token of a match whose race number is in the window (<<>> if none)
DateInWindow(match) ==
    IF /\ match.matched
       /\ match.raceNumber >= MIN_RACE_NUMBER
       /\ match.raceNumber <= MAX_RACE_NUMBER
    THEN match.dateToken
    ELSE <<>>

\* As RoiDateOfRow, but a row whose flag is set is filed too
RoiDateOfRow_IgnoresFlag(row, extracted) ==
    IF row.race_id = <<>> THEN <<>>
    ELSE DateInWindow(matchDateAndRace_(row.race_id))

\* The date token under which parseEntriesByDate_ files a row (<<>> if none)
RoiDateOfRow(row, extracted) ==
    IF IsMarkedTrue(extracted) \/ row.race_id = <<>> THEN <<>>
    ELSE DateInWindow(matchDateAndRace_(row.race_id))

\* The entry that parseEntriesByDate_ pushes for a row
RoiEntry(row) ==
    [raceId |-> row.race_id, raceNumber |-> matchDateAndRace_(row.race_id).raceNumber,
     horseNumber |-> NumOrEmpty(row.horse_number), mlOdds |-> NumOrEmpty(row.ml),
     liveOdds |-> NumOrEmpty(row.live_odds), cp3Odds |-> NumOrEmpty(row.correct_p3),
     double |-> NumOrEmpty(row.double)]

\* 1, 2, ..., n
Indices(n) == [i \in 1..n |-> i]

\* The date token of every row, in row order
RECURSIVE RoiDatesOfRows(_, _, _)
RoiDatesOfRows(mainData, flags, n) ==
    IF n = 0 THEN <<>>
    ELSE Append(RoiDatesOfRows(mainData, flags, n - 1),
                RoiDateOfRow(mainData[n], flags[n]))

\* The indices of the rows filed under a date token, in row order
RowsOfDate(dateOf, d) ==
    FilterSeq(Indices(Len(dateOf)), {i \in DOMAIN dateOf : dateOf[i] = d})

\* The result of parseEntriesByDate_, given the date token of every row
GroupByDate(mainData, flags, dateOf) ==
    [entriesByDate    |-> [d \in Range(dateOf) \ {<<>>} |->
                             [k \in DOMAIN RowsOfDate(dateOf, d) |->
                                 RoiEntry(mainData[RowsOfDate(dateOf, d)[k]])]],
     rowIndicesByDate |-> [d \in Range(dateOf) \ {<<>>} |->
                             [k \in DOMAIN RowsOfDate(dateOf, d) |->
                                 RowsOfDate(dateOf, d)[k] - 1]],
     skippedCount     |-> Cardinality({i \in DOMAIN mainData : IsMarkedTrue(flags[i])})]

\* parseEntriesByDate_: rows of columns A-F and their flags of column G
parseEntriesByDate_(mainData, flags) ==
    GroupByDate(mainData, flags, RoiDatesOfRows(mainData, flags, Len(mainData)))

\* Object.keys(entriesByDate).sort() on 8-digit tokens
RECURSIVE SortTokens(_)
SortTokens(tokens) ==
    IF tokens = {} THEN <<>>
    ELSE LET first == CHOOSE d \in tokens : \A e \in tokens : parseInt(d) <= parseInt(e)
         IN  <<first>> \o SortTokens(tokens \ {first})

\* A match for the date and the race number
IsMatchOf(match, dateToken, raceNumber) ==
    match.matched /\ match.dateToken = dateToken /\ match.raceNumber = raceNumber

\* The rows that buildWinnersMap_ puts into the map
WinnerRows(winnerData) ==
    {i \in DOMAIN winnerData :
        /\ winnerData[i].race_id # <<>>
        /\ winnerData[i].winning_horse_number # Blank}

\* winnersMap[raceId] is the winner of the last row holding the key
WinnerOfKey(winnerData, valid, key) ==
    winnerData[Last({i \in valid : winnerData[i].race_id = winnerData[key].race_id})]
        .winning_horse_number

\* The winner of the last of the keys of a race (JsNull if there is none)
WinnerOfKeys(winnerData, valid, keys) ==
    IF keys = {} THEN JsNull ELSE WinnerOfKey(winnerData, valid, Last(keys))

\* buildWinnersMap_ and getWinnersForDate_: the winner found for a race of
\* the date (JsNull if none).  Keys are the raw race ids in order of first
\* appearance, a later row replaces the value of its key and a later key
\* replaces the winner of its race number.
getWinnersForDate_(winnerData, dateToken, raceNumber) ==
    IF raceNumber \notin RaceNumbers THEN JsNull
    ELSE WinnerOfKeys(winnerData, WinnerRows(winnerData),
                      {i \in WinnerRows(winnerData) :
                          /\ \A j \in WinnerRows(winnerData) :
                                j < i => winnerData[j].race_id # winnerData[i].race_id
                          /\ IsMatchOf(matchDateAndRace_(winnerData[i].race_id),
                                       dateToken, raceNumber)})

NoMetadata == [found |-> FALSE, type |-> <<>>, age |-> <<>>, purse |-> <<>>]

\* The rows that buildRaceMetadataMap_ puts into the map
MetadataRows(raceMetadataData) ==
    {i \in DOMAIN raceMetadataData : trim(raceMetadataData[i].race_id) # <<>>}

\* The metadata of a row of columns O-R
MetadataOfRow(row) ==
    [found |-> TRUE, type |-> row.race_type, age |-> row.age, purse |-> row.purse]

\* raceMetadataMap[raceId] is the metadata of the last row holding the key
MetadataOfKey(raceMetadataData, valid, key) ==
    MetadataOfRow(raceMetadataData[
        Last({i \in valid : trim(raceMetadataData[i].race_id)
                               = trim(raceMetadataData[key].race_id)})])

\* The metadata of the last of the keys of a race (NoMetadata if there is none)
MetadataOfKeys(raceMetadataData, valid, keys) ==
    IF keys = {} THEN NoMetadata ELSE MetadataOfKey(raceMetadataData, valid, Last(keys))

\* buildRaceMetadataMap_ and getRaceMetadataForDate_: the metadata found for
\* a race of the date.  Keys are the trimmed race ids.
getRaceMetadataForDate_(raceMetadataData, dateToken, raceNumber) ==
    IF raceNumber \notin RaceNumbers THEN NoMetadata
    ELSE MetadataOfKeys(raceMetadataData, MetadataRows(raceMetadataData),
                        {i \in MetadataRows(raceMetadataData) :
                            /\ \A j \in MetadataRows(raceMetadataData) :
                                  j < i => trim(raceMetadataData[j].race_id)
                                             # trim(raceMetadataData[i].race_id)
                            /\ IsMatchOf(matchDateAndRace_(raceMetadataData[i].race_id),
                                         dateToken, raceNumber)})

\* Utilities.formatDate(new Date(year, month, day), TIMEZONE, 'MM/dd/yy') of
\* a YYYYMMDD token naming a calendar day
formatSheetName(dateToken) ==
    <<dateToken[5], dateToken[6], "/", dateToken[7], dateToken[8], "/",
      dateToken[3], dateToken[4]>>

\* parseInt(entry.horseNumber, 10) || 0
HorseSortKey(entry) == IF entry.horseNumber = Blank THEN 0 ELSE entry.horseNumber

\* entries.sort((a, b) => aNum - bNum), a stable sort
RECURSIVE SortByHorse(_)
SortByHorse(entries) ==
    IF entries = <<>> THEN <<>>
    ELSE LET sorted == SortByHorse(SubSeq(entries, 1, Len(entries) - 1))
             entry  == entries[Len(entries)]
             k      == Cardinality({i \in DOMAIN sorted :
                                       HorseSortKey(sorted[i]) <= HorseSortKey(entry)})
         IN  SubSeq(sorted, 1, k) \o <<entry>> \o SubSeq(sorted, k + 1, Len(sorted))

\* [Horse Number, ML ODDS, LIVE ODDS, CP3 ODDS, DOUBLE] of an entry
BlockRow(entry) ==
    [horseNumber |-> entry.horseNumber, mlOdds |-> entry.mlOdds,
     liveOdds |-> entry.liveOdds, cp3Odds |-> entry.cp3Odds, double |-> entry.double]

EmptyBlockRow ==
    [horseNumber |-> Blank, mlOdds |-> Blank, liveOdds |-> Blank, cp3Odds |-> Blank,
     double |-> Blank]

\* getRange(first, 1, Len(values), 5).setValues(values) inside a block
WriteBlockRows(rows, first, values) ==
    [i \in 1..Max(Len(rows), first + Len(values) - 1) |->
        IF i >= first /\ i < first + Len(values) THEN values[i - first + 1]
        ELSE IF i \in DOMAIN rows THEN rows[i] ELSE EmptyBlockRow]

\* writeRaceEntriesToSheet_: clear the block, write the entries sorted
writeRaceEntriesToSheet_(rows, entries) ==
    LET sortedEntries == SortByHorse(entries)
        cleared == IF Len(rows) <= ROI_MAX_HORSES THEN <<>>
                   ELSE [i \in 1..Len(rows) |->
                           IF i <= ROI_MAX_HORSES THEN EmptyBlockRow ELSE rows[i]]
    IN  WriteBlockRows(cleared, 1,
                       [i \in DOMAIN sortedEntries |-> BlockRow(sortedEntries[i])])

\* As appendRaceEntriesToSheet_, but entries whose horse number is already in
\* the block are added as well
appendRaceEntriesToSheet_NoFilter(rows, newEntries) ==
    LET entriesToAdd ==
            FilterSeq(newEntries, {e \in Range(newEntries) : e.horseNumber # Blank})
        sortedEntries == SortByHorse(entriesToAdd)
        empty == {i \in 1..ROI_MAX_HORSES : i \notin DOMAIN rows \/ rows[i].horseNumber = Blank}
        firstEmptyRow ==
            IF empty # {} THEN CHOOSE i \in empty : \A j \in empty : i <= j
            ELSE ROI_MAX_HORSES + 1
        rowsToWrite ==
            IF Len(sortedEntries) <= ROI_MAX_HORSES - firstEmptyRow + 1
            THEN Len(sortedEntries)
            ELSE ROI_MAX_HORSES - firstEmptyRow + 1
    IN  IF entriesToAdd = <<>> \/ rowsToWrite <= 0 THEN rows
        ELSE WriteBlockRows(rows, firstEmptyRow,
                            [i \in 1..rowsToWrite |-> BlockRow(sortedEntries[i])])

\* appendRaceEntriesToSheet_: add the entries whose horse number is not yet
\* in the block, from the first row with an empty horse number on
appendRaceEntriesToSheet_(rows, newEntries) ==
    LET existingHorseNumbers ==
            {rows[i].horseNumber : i \in {j \in DOMAIN rows : rows[j].horseNumber # Blank}}
        entriesToAdd ==
            FilterSeq(newEntries,
                      {e \in Range(newEntries) :
                          /\ e.horseNumber # Blank
                          /\ e.horseNumber \notin existingHorseNumbers})
        sortedEntries == SortByHorse(entriesToAdd)
        empty == {i \in 1..ROI_MAX_HORSES : i \notin DOMAIN rows \/ rows[i].horseNumber = Blank}
        firstEmptyRow ==
            IF empty # {} THEN CHOOSE i \in empty : \A j \in empty : i <= j
            ELSE ROI_MAX_HORSES + 1
        rowsToWrite ==
            IF Len(sortedEntries) <= ROI_MAX_HORSES - firstEmptyRow + 1
            THEN Len(sortedEntries)
            ELSE ROI_MAX_HORSES - firstEmptyRow + 1
    IN  IF entriesToAdd = <<>> \/ rowsToWrite <= 0 THEN rows
        ELSE WriteBlockRows(rows, firstEmptyRow,
                            [i \in 1..rowsToWrite |-> BlockRow(sortedEntries[i])])

\* cell.getValue() of a text cell is empty, then setValue(value || '')
SetIfEmpty(cell, value) == IF cell = <<>> THEN value ELSE cell

\* The body of the race loop of processDate_ for one race of the date
ProcessRace(block, isNewSheet, raceEntries, winner, metadata) ==
    [rows   |-> IF isNewSheet THEN writeRaceEntriesToSheet_(block.rows, raceEntries)
                ELSE appendRaceEntriesToSheet_(block.rows, raceEntries),
     winner |-> IF winner # JsNull /\ (block.winner = Blank \/ block.winner = 0)
                THEN winner ELSE block.winner,
     type   |-> IF metadata.found THEN SetIfEmpty(block.type, metadata.type) ELSE block.type,
     age    |-> IF metadata.found THEN SetIfEmpty(block.age, metadata.age) ELSE block.age,
     purse  |-> IF metadata.found THEN SetIfEmpty(block.purse, metadata.purse)
                ELSE block.purse]

\* The race numbers of the entries of a date
RacesOf(entries) == {entries[k].raceNumber : k \in DOMAIN entries}

\* The races of the date get their entries, winner and metadata.  A race in
\* failedRaces has no header row on the sheet (findRaceHeaderRow_ returns
\* null) or throws inside the try of the race loop before a cell is written:
\* the loop goes on with the next race.
ProcessRaces(blocks, isNewSheet, entries, winnerData, raceMetadataData, dateToken, failedRaces) ==
    [r \in DOMAIN blocks |->
        IF r \in RacesOf(entries) \ failedRaces
        THEN ProcessRace(blocks[r], isNewSheet,
                         FilterSeq(entries, {e \in Range(entries) : e.raceNumber = r}),
                         getWinnersForDate_(winnerData, dateToken, r),
                         getRaceMetadataForDate_(raceMetadataData, dateToken, r))
        ELSE blocks[r]]

\* processDate_ when no call outside the race loop throws: the sheet of the
\* date is created as a copy of TEE if it does not exist, then filled
processDate_(wb, dateToken, entries, winnerData, raceMetadataData, failedRaces) ==
    LET sheetName  == formatSheetName(dateToken)
        isNewSheet == sheetName \notin Range(wb.allSheets)
        target     == IF isNewSheet THEN CopyTeeTo(wb, sheetName) ELSE wb
    IN  [target EXCEPT !.sheetBlocks[sheetName] =
            ProcessRaces(@, isNewSheet, entries, winnerData, raceMetadataData, dateToken,
                         failedRaces)]

\* markEntriesAsExtracted_: true into column G of the rows (row numbers)
markEntriesAsExtracted_(cells, rowNumbers) ==
    IF rowNumbers = <<>> THEN cells
    ELSE LET rows == Range(rowNumbers)
             top  == CHOOSE r \in rows : \A q \in rows : r >= q
         IN  [i \in 1..Max(Len(cells), top - 1) |->
                IF i + 1 \in rows THEN TrueCell
                ELSE IF i \in DOMAIN cells THEN cells[i] ELSE EmptyCell]

\* What a call of processRoiHistorical remembers of the call before it
RoiPrevious(run) ==
    [handler |-> run.handler, errors |-> run.errors, markersFound |-> run.markersFound,
     cutOff |-> run.cutOff]

NoRoiRun ==
    [handler |-> "none",
     previous |-> [handler |-> "none", errors |-> <<>>, markersFound |-> 0,
                   cutOff |-> FALSE],
     markersFound |-> 0, noData |-> FALSE, dates |-> <<>>, checks |-> <<>>,
     attempted |-> <<>>, processed |-> <<>>, errors |-> <<>>, raceErrors |-> <<>>,
     timedOut |-> FALSE, skippedCount |-> 0, entriesMarked |-> 0, cutOff |-> FALSE]

\* The for loop over dates from index i on.  outcome[date] tells how long
\* the date takes, whether processDate_ throws before it changes a sheet,
\* which races fail inside its race loop, and whether the host ends the
\* execution after processDate_ of the date returned and before
\* markEntriesAsExtracted_ wrote a flag.
RECURSIVE RoiLoop(_, _, _, _, _, _, _)
RoiLoop(dates, i, parsed, winnerData, raceMetadataData, outcome, st) ==
    IF i > Len(dates) THEN st
    ELSE IF TimeLimitReached(st.elapsed, ROI_MAX_EXECUTION_TIME_MS)
    THEN [st EXCEPT !.checks = Append(@, st.elapsed), !.timedOut = TRUE]
    ELSE IF outcome[dates[i]].throws
    THEN RoiLoop(dates, i + 1, parsed, winnerData, raceMetadataData, outcome,
                 [st EXCEPT !.checks = Append(@, st.elapsed),
                            !.attempted = Append(@, dates[i]),
                            !.elapsed = @ + outcome[dates[i]].ms,
                            !.errors = Append(@, dates[i])])
    ELSE IF outcome[dates[i]].cutOff
    THEN [st EXCEPT !.checks = Append(@, st.elapsed),
                    !.attempted = Append(@, dates[i]),
                    !.workbook = processDate_(@, dates[i], parsed.entriesByDate[dates[i]],
                                              winnerData, raceMetadataData,
                                              outcome[dates[i]].failedRaces),
                    !.cutOff = TRUE]
    ELSE RoiLoop(dates, i + 1, parsed, winnerData, raceMetadataData, outcome,
                 [st EXCEPT !.checks = Append(@, st.elapsed),
                            !.attempted = Append(@, dates[i]),
                            !.elapsed = @ + outcome[dates[i]].ms,
                            !.workbook = processDate_(@, dates[i],
                                                      parsed.entriesByDate[dates[i]],
                                                      winnerData, raceMetadataData,
                                                      outcome[dates[i]].failedRaces),
                            !.raceErrors =
                                IF RacesOf(parsed.entriesByDate[dates[i]])
                                     \cap outcome[dates[i]].failedRaces # {}
                                THEN Append(@, dates[i]) ELSE @,
                            !.extracted = markEntriesAsExtracted_(@,
                                [k \in DOMAIN parsed.rowIndicesByDate[dates[i]] |->
                                    parsed.rowIndicesByDate[dates[i]][k] + 2]),
                            !.entriesMarked = @ + Len(parsed.rowIndicesByDate[dates[i]]),
                            !.processed = Append(@, dates[i])])

\* processRoiHistorical once DATABASE has been read
RoiProcess(lastRow, parsed, dates, setupMs, outcome) ==
    LET st == RoiLoop(dates, 1, parsed,
                      ReadRows(databaseSheet.L_M, EmptyWinnerRow, lastRow),
                      ReadRows(databaseSheet.O_R, EmptyMetaRow, lastRow), outcome,
                      [elapsed |-> setupMs, workbook |-> Workbook,
                       extracted |-> databaseSheet.G, checks |-> <<>>,
                       attempted |-> <<>>, processed |-> <<>>, errors |-> <<>>,
                       raceErrors |-> <<>>, entriesMarked |-> 0, timedOut |-> FALSE,
                       cutOff |-> FALSE])
    IN  /\ databaseSheet' = [databaseSheet EXCEPT !.G = st.extracted]
        /\ allSheets' = st.workbook.allSheets
        /\ syncFlag' = st.workbook.syncFlag
        /\ sheetFormulas' = st.workbook.sheetFormulas
        /\ sheetBlocks' = st.workbook.sheetBlocks
        /\ ag2' = st.workbook.ag2
        /\ roiRun' = [handler |-> "processRoiHistorical", previous |-> RoiPrevious(roiRun),
                      markersFound |-> 0, noData |-> FALSE,
                      dates |-> dates, checks |-> st.checks, attempted |-> st.attempted,
                      processed |-> st.processed, errors |-> st.errors,
                      raceErrors |-> st.raceErrors,
                      timedOut |-> st.timedOut, skippedCount |-> parsed.skippedCount,
                      entriesMarked |-> st.entriesMarked, cutOff |-> st.cutOff]

\* processRoiHistorical after the lastRow check
RoiRead(lastRow, setupMs, outcome) ==
    LET parsed == parseEntriesByDate_(ReadRows(databaseSheet.A_F, EmptyEntryRow, lastRow),
                                      ReadRows(databaseSheet.G, EmptyCell, lastRow))
    IN  RoiProcess(lastRow, parsed, SortTokens(DOMAIN parsed.entriesByDate),
                   setupMs, outcome)

\* One call of processRoiHistorical
processRoiHistorical(setupMs, outcome) ==
    /\ IF getLastRow(databaseSheet) < 2
       THEN /\ roiRun' = [NoRoiRun EXCEPT !.handler = "processRoiHistorical",
                                          !.previous = RoiPrevious(roiRun),
                                          !.noData = TRUE]
            /\ UNCHANGED <<databaseSheet, workbookVars>>
       ELSE RoiRead(getLastRow(databaseSheet), setupMs, outcome)
    /\ UNCHANGED <<lastSync, backend, batch, teeVars, ingestRun, dailyVars>>

\* One call of clearRoiHistoricalProgress
clearRoiHistoricalProgress ==
    /\ IF getLastRow(databaseSheet) < 2
       THEN /\ roiRun' = [NoRoiRun EXCEPT !.handler = "clearRoiHistoricalProgress",
                                          !.previous = RoiPrevious(roiRun),
                                          !.noData = TRUE]
            /\ UNCHANGED databaseSheet
       ELSE /\ databaseSheet' = [databaseSheet EXCEPT !.G = <<>>]
            /\ roiRun' = [NoRoiRun EXCEPT
                            !.handler = "clearRoiHistoricalProgress",
                            !.previous = RoiPrevious(roiRun),
                            !.markersFound =
                                Cardinality({i \in DOMAIN databaseSheet.G :
                                               IsMarkedTrue(databaseSheet.G[i])})]
    /\ UNCHANGED <<lastSync, backend, batch, workbookVars, teeVars, ingestRun, dailyVars>>

-----------------------------------------------------------------------------
(* ingestAllHistoricalSheets and clearAllIngestionMarkers *)

INGEST_MAX_EXECUTION_TIME_MS == 330000
INGEST_BATCH_SIZE == 5
INGEST_DELAY_MS == 500

\* isSheetIngested on the value of AG2
isSheetIngested(ag2Value) == ag2Value \in {TrueCell, "TRUE", "True"}

\* markSheetAsIngested: setValue(true)
markSheetAsIngested(ag2Value) == TrueCell

\* As clearSheetIngestionMarker, but AG2 is left as it is
clearSheetIngestionMarker_Keeps(ag2Value) == ag2Value

\* clearSheetIngestionMarker: setValue(false)
clearSheetIngestionMarker(ag2Value) == FalseCell

\* The sheets that are never ingested
IngestSkipNames == {UTILITY_SHEET_NAME, TEMPLATE_SHEET_NAME, RATIO_TEMPLATE_SHEET_NAME}

\* sheetNames && !sheetNames.includes(sheetName)
NotRequested(sheetNames, sheetName) ==
    sheetNames.given /\ sheetName \notin Range(sheetNames.names)

AllSheetNames == [given |-> FALSE, names |-> <<>>]

NoIngestRun ==
    [handler |-> "none",
     previous |-> [handler |-> "none", errors |-> <<>>, markersFound |-> 0,
                   sheetNames |-> AllSheetNames, forceReingest |-> FALSE],
     markersFound |-> 0, sheetNames |-> AllSheetNames, forceReingest |-> FALSE,
     sheetsToProcess |-> <<>>, attempted |-> <<>>, success |-> <<>>, failed |-> <<>>,
     processed |-> 0, skipped |-> 0, already_ingested |-> 0, stoppedEarly |-> FALSE]

\* What a handler call remembers of the call before it
PreviousIngest(run) ==
    [handler |-> run.handler, errors |-> run.failed, markersFound |-> run.markersFound,
     sheetNames |-> run.sheetNames, forceReingest |-> run.forceReingest]

\* extractRaceDataFromHistoricalSheet finds races on the sheet
SheetHasRaces(blocks) == \E r \in DOMAIN blocks : blocks[r].rows # <<>>

\* As ingestHistoricalSheetData, but AG2 is set whatever the backend answers
ingestHistoricalSheetData_MarksAlways(blocks, ag2Value, apiSuccess) ==
    [success |-> SheetHasRaces(blocks) /\ apiSuccess, ag2 |-> markSheetAsIngested(ag2Value)]

\* ingestHistoricalSheetData: the result, and AG2, which is set only when
\* races were found and the backend accepted them
ingestHistoricalSheetData(blocks, ag2Value, apiSuccess) ==
    IF SheetHasRaces(blocks) /\ apiSuccess
    THEN [success |-> TRUE, ag2 |-> markSheetAsIngested(ag2Value)]
    ELSE [success |-> FALSE, ag2 |-> ag2Value]

\* The sheets that pass the filter of ingestAllHistoricalSheets
IngestSheetsToProcess(sheetNames, forceReingest) ==
    FilterSeq(allSheets,
              {n \in Range(allSheets) :
                  /\ n \notin IngestSkipNames
                  /\ ~ NotRequested(sheetNames, n)
                  /\ ~ (~ forceReingest /\ isSheetIngested(ag2[n]))})

\* Utilities.sleep(delayMs) after every batchSize sheets but the last
IngestPause(processed, batchIndex, count) ==
    IF processed % INGEST_BATCH_SIZE = 0 /\ batchIndex < count THEN INGEST_DELAY_MS ELSE 0

\* The body of the loop for one sheet: ingest, count, pause
IngestSheet(sheet, batchIndex, count, ms, result, st) ==
    [st EXCEPT !.attempted = Append(@, sheet),
               !.ag2[sheet] = result.ag2,
               !.success = IF result.success THEN Append(@, sheet) ELSE @,
               !.failed = IF result.success THEN @ ELSE Append(@, sheet),
               !.processed = @ + 1,
               !.elapsed = @ + ms + IngestPause(st.processed + 1, batchIndex, count)]

\* The for loop over sheetsToProcess from batchIndex on.  outcome[sheet] tells
\* how long ingestHistoricalSheetData takes and whether the backend accepts
\* the data of the sheet.
\* The time is checked before and after every sheet.
RECURSIVE IngestLoop(_, _, _, _)
IngestLoop(sheetsToProcess, batchIndex, outcome, st) ==
    IF batchIndex > Len(sheetsToProcess) THEN st
    ELSE IF st.elapsed > INGEST_MAX_EXECUTION_TIME_MS
    THEN [st EXCEPT !.stoppedEarly = TRUE]
    ELSE LET after == IngestSheet(sheetsToProcess[batchIndex], batchIndex,
                                  Len(sheetsToProcess),
                                  outcome[sheetsToProcess[batchIndex]].ms,
                                  ingestHistoricalSheetData(
                                      sheetBlocks[sheetsToProcess[batchIndex]],
                                      st.ag2[sheetsToProcess[batchIndex]],
                                      outcome[sheetsToProcess[batchIndex]].success),
                                  st)
         IN  IF after.elapsed > INGEST_MAX_EXECUTION_TIME_MS
             THEN [after EXCEPT !.stoppedEarly = TRUE]
             ELSE IngestLoop(sheetsToProcess, batchIndex + 1, outcome, after)

\* ingestAllHistoricalSheets after the filter
IngestProcess(options, sheetsToProcess, setupMs, outcome) ==
    LET st == IngestLoop(sheetsToProcess, 1, outcome,
                         [elapsed |-> setupMs, ag2 |-> ag2, attempted |-> <<>>,
                          success |-> <<>>, failed |-> <<>>, processed |-> 0,
                          stoppedEarly |-> FALSE])
    IN  /\ ag2' = st.ag2
        /\ ingestRun' =
             [handler |-> "ingestAllHistoricalSheets",
              previous |-> PreviousIngest(ingestRun), markersFound |-> 0,
              sheetNames |-> options.sheetNames, forceReingest |-> options.forceReingest,
              sheetsToProcess |-> sheetsToProcess, attempted |-> st.attempted,
              success |-> st.success, failed |-> st.failed, processed |-> st.processed,
              skipped |-> Cardinality({i \in DOMAIN allSheets :
                             \/ allSheets[i] \in IngestSkipNames
                             \/ NotRequested(options.sheetNames, allSheets[i])}),
              already_ingested |-> Cardinality({i \in DOMAIN allSheets :
                             /\ allSheets[i] \notin IngestSkipNames
                             /\ ~ NotRequested(options.sheetNames, allSheets[i])
                             /\ ~ options.forceReingest
                             /\ isSheetIngested(ag2[allSheets[i]])}),
              stoppedEarly |-> st.stoppedEarly]

\* One call of ingestAllHistoricalSheets(options); batchSize, delayMs and
\* maxExecutionTimeMs keep their defaults
ingestAllHistoricalSheets(options, setupMs, outcome) ==
    /\ IngestProcess(options,
                     IngestSheetsToProcess(options.sheetNames, options.forceReingest),
                     setupMs, outcome)
    /\ UNCHANGED <<dailyVars, dbVars, batch, allSheets, syncFlag, sheetFormulas, sheetBlocks,
                   teeVars, roiRun>>

\* One call of clearAllIngestionMarkers(sheetNames)
clearAllIngestionMarkers(sheetNames) ==
    /\ ag2' = [n \in DOMAIN ag2 |->
                 IF /\ n \in Range(allSheets)
                    /\ n \notin IngestSkipNames
                    /\ ~ NotRequested(sheetNames, n)
                 THEN clearSheetIngestionMarker(ag2[n]) ELSE ag2[n]]
    /\ ingestRun' = [NoIngestRun EXCEPT
                       !.handler = "clearAllIngestionMarkers",
                       !.previous = PreviousIngest(ingestRun),
                       !.sheetNames = sheetNames,
                       !.markersFound =
                           Cardinality({n \in Range(allSheets) \ IngestSkipNames :
                                          /\ ~ NotRequested(sheetNames, n)
                                          /\ isSheetIngested(ag2[n])})]
    /\ UNCHANGED <<dailyVars, dbVars, batch, allSheets, syncFlag, sheetFormulas, sheetBlocks,
                   teeVars, roiRun>>

-----------------------------------------------------------------------------
(* runCatchUpRetrieval *)

\* A calendar date; the script and the sheet are in the same time zone
NoDate == [found |-> FALSE, year |-> 0, month |-> 0, day |-> 0]

\* new Date(year, month, day) of the date token YYYYMMDD of a valid date
DateOfToken(dateToken) ==
    [found |-> TRUE, year |-> parseInt(SubSeq(dateToken, 1, 4)),
     month |-> parseInt(SubSeq(dateToken, 5, 6)),
     day |-> parseInt(SubSeq(dateToken, 7, 8))]

\* Order of two dates (date > lastDate, currentDate <= yesterday)
DateOrdinal(d) == d.year * 10000 + d.month * 100 + d.day

IsLeapYear(y) == (y % 4 = 0 /\ y % 100 # 0) \/ y % 400 = 0

DaysInMonth(y, m) ==
    IF m = 2 THEN (IF IsLeapYear(y) THEN 29 ELSE 28)
    ELSE IF m \in {4, 6, 9, 11} THEN 30 ELSE 31

\* currentDate.setDate(currentDate.getDate() + 1)
AddDay(d) ==
    IF d.day < DaysInMonth(d.year, d.month) THEN [d EXCEPT !.day = @ + 1]
    ELSE IF d.month < 12 THEN [d EXCEPT !.month = @ + 1, !.day = 1]
    ELSE [d EXCEPT !.year = @ + 1, !.month = 1, !.day = 1]

\* Two digits of a number below 100
Pad2(n) == IF n < 10 THEN <<"0">> \o numToString(n) ELSE numToString(n)

\* Utilities.formatDate(date, TIMEZONE, 'yyyy-MM-dd')
formatIsoDate(d) ==
    numToString(d.year) \o <<"-">> \o Pad2(d.month) \o <<"-">> \o Pad2(d.day)

\* Whether a race id of column A counts for the last inputted date
IsInputtedRaceId(raceId, trackCode) ==
    /\ raceId # <<>>
    /\ parseRaceIdComponents_(raceId).matched
    /\ toUpperCase(parseRaceIdComponents_(raceId).trackCode) = toUpperCase(trackCode)
    /\ parseRaceIdComponents_(raceId).raceNumber >= MIN_RACE_NUMBER
    /\ parseRaceIdComponents_(raceId).raceNumber <= MAX_RACE_NUMBER

\* The dates of the race ids of column A that count
InputtedDates(keyValues, trackCode) ==
    {DateOfToken(parseRaceIdComponents_(keyValues[i].race_id).dateToken) :
        i \in {j \in DOMAIN keyValues : IsInputtedRaceId(keyValues[j].race_id, trackCode)}}

\* The latest of a set of dates, null if there is none
LatestDate(dates) ==
    IF dates = {} THEN NoDate
    ELSE CHOOSE d \in dates : \A e \in dates : DateOrdinal(d) >= DateOrdinal(e)

findLastInputtedDate_(sheet, trackCode) ==
    IF getLastRow(sheet) < 2 THEN NoDate
    ELSE LatestDate(InputtedDates(ReadRows(sheet.A_F, EmptyEntryRow, getLastRow(sheet)),
                                  trackCode))

\* The while loop that collects currentDate up to yesterday
RECURSIVE DatesUpTo(_, _)
DatesUpTo(currentDate, yesterday) ==
    IF DateOrdinal(currentDate) <= DateOrdinal(yesterday)
    THEN <<currentDate>> \o DatesUpTo(AddDay(currentDate), yesterday)
    ELSE <<>>

\* What the loop of runCatchUpRetrieval pushes for one date: the summary of
\* syncDatabaseSheetForDate_, or the error it threw
CatchUpDate(st, isoDate, trackCode, resp) ==
    IF ApiKeyMissing \/ EntriesFetchThrows(resp.entries)
    THEN [st EXCEPT !.results = Append(@, [date |-> isoDate, success |-> FALSE,
                                           error |-> TRUE, summary |-> NoSync]),
                    !.lastSync = [NoSync EXCEPT !.called = TRUE, !.threw = TRUE,
                                                !.isoDate = isoDate]]
    ELSE CHOOSE next \in
           {[st EXCEPT !.sheet = r.sheet,
                       !.lastSync = r.summary,
                       !.results = Append(@, [date |-> isoDate, success |-> TRUE,
                                              error |-> FALSE, summary |-> r.summary])] :
              r \in {SyncResult(st.sheet, isoDate, trackCode, resp.entries.entries,
                                fetchWinnersForTrack_(resp.winners))}} : TRUE

\* The for loop over datesToProcess from index i on
RECURSIVE CatchUpLoop(_, _, _, _, _)
CatchUpLoop(datesToProcess, i, trackCode, responses, st) ==
    IF i > Len(datesToProcess) THEN st
    ELSE CatchUpLoop(datesToProcess, i + 1, trackCode, responses,
                     CatchUpDate(st, formatIsoDate(datesToProcess[i]), trackCode,
                                 responses[formatIsoDate(datesToProcess[i])]))

NoResult == [success |-> FALSE]

\* The ISO dates of a list of dates
RECURSIVE IsoDates(_)
IsoDates(dates) ==
    IF dates = <<>> THEN <<>> ELSE <<formatIsoDate(Head(dates))>> \o IsoDates(Tail(dates))

\* runCatchUpRetrieval once the sheet and the track code have been found
CatchUp(lastDate, datesToProcess, trackCode, responses) ==
    IF ~ lastDate.found
    THEN [sheet |-> databaseSheet, lastSync |-> lastSync,
          result |-> [success |-> FALSE, message |-> "No existing data found",
                      dates |-> <<>>, datesProcessed |-> 0, results |-> <<>>]]
    ELSE IF Len(datesToProcess) = 0
    THEN [sheet |-> databaseSheet, lastSync |-> lastSync,
          result |-> [success |-> TRUE, message |-> "Already up to date",
                      dates |-> <<>>, datesProcessed |-> 0, results |-> <<>>]]
    ELSE CHOOSE out \in
           {[sheet |-> st.sheet, lastSync |-> st.lastSync,
             result |-> [success |-> TRUE, message |-> "",
                         dates |-> IsoDates(datesToProcess),
                         datesProcessed |-> Len(datesToProcess),
                         results |-> st.results]] :
              st \in {CatchUpLoop(datesToProcess, 1, trackCode, responses,
                                  [sheet |-> databaseSheet, lastSync |-> lastSync,
                                   results |-> <<>>])}} : TRUE

\* The days after the last inputted date up to yesterday
CatchUpDates(lastDate, yesterday) ==
    IF lastDate.found THEN DatesUpTo(AddDay(lastDate), yesterday) ELSE <<>>

\* One call of runCatchUpRetrieval; yesterday is the date before the call in
\* the Eastern time zone, responses[d] what the two endpoints answer for d
runCatchUpRetrieval(yesterday, responses) ==
    /\ IF DATABASE_SHEET_NAME \notin Range(allSheets) \/ TrackCodeMissing
       THEN /\ call' = [handler |-> "runCatchUpRetrieval", threw |-> TRUE,
                        result |-> NoResult]
            /\ UNCHANGED <<databaseSheet, lastSync>>
       ELSE \E lastDate \in {findLastInputtedDate_(databaseSheet,
                                                   getTrackCodeFromDatabaseSheet_)} :
              \E out \in {CatchUp(lastDate, CatchUpDates(lastDate, yesterday),
                                  getTrackCodeFromDatabaseSheet_, responses)} :
                /\ databaseSheet' = out.sheet
                /\ lastSync' = out.lastSync
                /\ call' = [handler |-> "runCatchUpRetrieval", threw |-> FALSE,
                            result |-> out.result]
    /\ UNCHANGED <<backend, batch, workbookVars, teeProgress, now, runVars,
                   config, request, totalsSheet>>

-----------------------------------------------------------------------------
(* syncDailyTotals *)

TOTALS_START_ROW == 11

\* A row of TOTALS: column A and whether B-E hold the formulas of the sheet
EmptyTotalsRow == [date |-> <<>>, formulas |-> FALSE]

\* String(dateValue).trim().replace(/-/g, '/')
RECURSIVE dashesToSlashes(_)
dashesToSlashes(s) ==
    IF s = <<>> THEN <<>>
    ELSE <<IF Head(s) = "-" THEN "/" ELSE Head(s)>> \o dashesToSlashes(Tail(s))

\* Index i of totalsSheet is sheet row TOTALS_START_ROW - 1 + i
TotalsLastRow(sheet) == TOTALS_START_ROW - 1 + LastFilled(sheet, EmptyTotalsRow)

\* As getExistingDates_, but no date of column A is found
getExistingDates_None(sheet) == {}

\* getExistingDates_: the texts of column A from row 11 on, trimmed and with
\* slashes for dashes
getExistingDates_(sheet) ==
    IF TotalsLastRow(sheet) < TOTALS_START_ROW THEN {}
    ELSE {dashesToSlashes(trim(sheet[i].date)) :
            i \in {j \in DOMAIN sheet : sheet[j].date # <<>>}}

findLastRowInColumnA_(sheet) ==
    IF TotalsLastRow(sheet) < TOTALS_START_ROW THEN TOTALS_START_ROW - 1
    ELSE TOTALS_START_ROW - 1
           + Last({0} \cup {j \in DOMAIN sheet : sheet[j].date # <<>>})

\* sheetNameToSortable_ of a name MM/dd/yy: "20" + yy + MM + dd
sheetNameToSortable_(sheetName) ==
    <<"2", "0", sheetName[7], sheetName[8], sheetName[1], sheetName[2],
      sheetName[4], sheetName[5]>>

\* missingDates.sort by the sortable key (a stable sort)
RECURSIVE InsertByDate(_, _)
InsertByDate(sorted, name) ==
    IF sorted = <<>> THEN <<name>>
    ELSE IF parseInt(sheetNameToSortable_(name)) < parseInt(sheetNameToSortable_(Head(sorted)))
         THEN <<name>> \o sorted
         ELSE <<Head(sorted)>> \o InsertByDate(Tail(sorted), name)

RECURSIVE SortByDate(_)
SortByDate(names) ==
    IF names = <<>> THEN <<>>
    ELSE InsertByDate(SortByDate(SubSeq(names, 1, Len(names) - 1)), names[Len(names)])

\* The cell of one row of TOTALS, the sheet growing as needed
SetTotalsRow(sheet, row, value) ==
    [i \in 1..Max(Len(sheet), row - TOTALS_START_ROW + 1) |->
        IF i = row - TOTALS_START_ROW + 1 THEN value
        ELSE IF i \in DOMAIN sheet THEN sheet[i] ELSE EmptyTotalsRow]

\* appendTotalsRow_: "ok" writes column A and the formulas of B-E;
\* "throwsEarly" throws before a cell is written; "throwsLate" throws after
\* column A has been written (a later write or the check of the BET formula)
appendTotalsRow_(sheet, sheetName, outcome) ==
    IF outcome = "throwsEarly" THEN sheet
    ELSE SetTotalsRow(sheet, Max(findLastRowInColumnA_(sheet) + 1, TOTALS_START_ROW),
                      [date |-> sheetName, formulas |-> outcome = "ok"])

\* As TotalsLoop, but the first failing sheet ends the loop
RECURSIVE TotalsLoop_StopsAtError(_, _, _, _)
TotalsLoop_StopsAtError(missingDates, i, outcome, st) ==
    IF i > Len(missingDates) THEN st
    ELSE IF outcome[missingDates[i]] # "ok"
    THEN [st EXCEPT !.sheet = appendTotalsRow_(@, missingDates[i], outcome[missingDates[i]]),
                    !.attempted = Append(@, missingDates[i]),
                    !.errors = Append(@, [date |-> missingDates[i]])]
    ELSE TotalsLoop_StopsAtError(missingDates, i + 1, outcome,
           [st EXCEPT !.sheet = appendTotalsRow_(@, missingDates[i], "ok"),
                      !.attempted = Append(@, missingDates[i]),
                      !.appended = @ + 1])

\* The for loop over missingDates from index i on
RECURSIVE TotalsLoop(_, _, _, _)
TotalsLoop(missingDates, i, outcome, st) ==
    IF i > Len(missingDates) THEN st
    ELSE TotalsLoop(missingDates, i + 1, outcome,
           [sheet |-> appendTotalsRow_(st.sheet, missingDates[i], outcome[missingDates[i]]),
            attempted |-> Append(st.attempted, missingDates[i]),
            appended |-> IF outcome[missingDates[i]] = "ok"
                         THEN st.appended + 1 ELSE st.appended,
            errors |-> IF outcome[missingDates[i]] = "ok" THEN st.errors
                       ELSE Append(st.errors, [date |-> missingDates[i]])])

NoTotalsSummary ==
    [success |-> FALSE, error |-> FALSE, totalSheets |-> 0, existingDates |-> 0,
     missingDates |-> <<>>, attempted |-> <<>>, appended |-> 0, errors |-> <<>>]

\* The dated sheets whose name is not in column A of TOTALS, in tab order
MissingDates(dateSheets, existingDates) ==
    FilterSeq(dateSheets, {n \in Range(dateSheets) : n \notin existingDates})

\* Body of syncDailyTotals once TOTALS has been found
TotalsSync(dateSheets, existingDates, missingDates, outcome) ==
    IF Len(dateSheets) = 0
    THEN [sheet |-> totalsSheet, summary |-> [NoTotalsSummary EXCEPT !.error = TRUE]]
    ELSE IF Len(missingDates) = 0
    THEN [sheet |-> totalsSheet, summary |-> [NoTotalsSummary EXCEPT !.success = TRUE]]
    ELSE CHOOSE out \in
           {[sheet |-> st.sheet,
             summary |-> [success |-> TRUE, error |-> FALSE,
                          totalSheets |-> Len(dateSheets),
                          existingDates |-> Cardinality(existingDates),
                          missingDates |-> SortByDate(missingDates),
                          attempted |-> st.attempted,
                          appended |-> st.appended, errors |-> st.errors]] :
              st \in {TotalsLoop(SortByDate(missingDates), 1, outcome,
                                 [sheet |-> totalsSheet, attempted |-> <<>>,
                                  appended |-> 0, errors |-> <<>>])}} : TRUE

\* One call of syncDailyTotals; outcome[n] is how appendTotalsRow_ ends for
\* the dated sheet n.  The outer try/catch turns a missing TOTALS sheet into
\* a returned error.
syncDailyTotals(outcome) ==
    /\ IF TOTALS_SHEET_NAME \notin Range(allSheets)
       THEN /\ call' = [handler |-> "syncDailyTotals", threw |-> FALSE,
                        result |-> [NoTotalsSummary EXCEPT !.error = TRUE]]
            /\ UNCHANGED totalsSheet
       ELSE \E dateSheets \in {getDateSheets_(allSheets)},
               existingDates \in {getExistingDates_(totalsSheet)} :
              \E out \in {TotalsSync(dateSheets, existingDates,
                                     MissingDates(dateSheets, existingDates), outcome)} :
                /\ totalsSheet' = out.sheet
                /\ call' = [handler |-> "syncDailyTotals", threw |-> FALSE,
                            result |-> out.summary]
    /\ UNCHANGED <<dbVars, batch, workbookVars, teeProgress, now, runVars, config, request>>

-----------------------------------------------------------------------------
(* populateTeeSheetFromDatabase, syncDatabaseSheet and runDailyTrackingSync *)

MAX_HORSES_PER_RACE == 16

\* Number(row[1]): an empty cell is 0
NumberOfCell(v) == IF v = Blank THEN 0 ELSE v

\* Whether buildRaceEntryMap_ takes a row of columns A-F for the race
IsEntryOfRace(row, trackCode, dateToken, race) ==
    /\ row.race_id # <<>>
    /\ parseRaceIdComponents_(row.race_id).matched
    /\ parseRaceIdComponents_(row.race_id).trackCode = trackCode
    /\ parseRaceIdComponents_(row.race_id).dateToken = dateToken
    /\ parseRaceIdComponents_(row.race_id).raceNumber >= MIN_RACE_NUMBER
    /\ parseRaceIdComponents_(row.race_id).raceNumber <= MAX_RACE_NUMBER
    /\ parseRaceIdComponents_(row.race_id).raceNumber = race

\* [horse_number, ml ?? '', live_odds ?? '', correct_p3 ?? '', double ?? '']
TeeValues(row) ==
    [horseNumber |-> NumberOfCell(row.horse_number), mlOdds |-> row.ml,
     liveOdds |-> row.live_odds, cp3Odds |-> row.correct_p3, double |-> row.double]

\* The rows of columns A-F that are in keep, as TEE values, in sheet order
RECURSIVE TeeValuesOf(_, _)
TeeValuesOf(values, keep) ==
    IF values = <<>> THEN <<>>
    ELSE (IF Head(values) \in keep THEN <<TeeValues(Head(values))>> ELSE <<>>)
           \o TeeValuesOf(Tail(values), keep)

\* raceMap[race] of buildRaceEntryMap_, as the values written to TEE
buildRaceEntryMap_(sheet, trackCode, dateToken, race) ==
    IF getLastRow(sheet) < 2 THEN <<>>
    ELSE TeeValuesOf(sheet.A_F,
                     {row \in Range(sheet.A_F) :
                        IsEntryOfRace(row, trackCode, dateToken, race)})

\* getRange(dataStartRow, 1, MAX_HORSES_PER_RACE, 5).clearContent()
ClearRaceBlock(rows) ==
    IF Len(rows) <= MAX_HORSES_PER_RACE THEN <<>>
    ELSE [i \in 1..Len(rows) |-> IF i <= MAX_HORSES_PER_RACE THEN EmptyBlockRow ELSE rows[i]]

\* As writeRaceBlockToTee_, but without the clearContent call
writeRaceBlockToTee_NoClear(rows, values) ==
    IF values = <<>> THEN rows ELSE WriteBlockRows(rows, 1, values)

writeRaceBlockToTee_(rows, values) ==
    IF values = <<>> THEN ClearRaceBlock(rows)
    ELSE WriteBlockRows(ClearRaceBlock(rows), 1, values)

\* The for loop over the races: a race whose header is not found keeps its
\* block, any other block is replaced by the sorted entries of the race
PopulateBlocks(blocks, sheet, trackCode, dateToken, missingHeaders) ==
    [race \in DOMAIN blocks |->
        IF race \in missingHeaders THEN blocks[race]
        ELSE [blocks[race] EXCEPT !.rows =
                writeRaceBlockToTee_(@, SortByHorse(
                    buildRaceEntryMap_(sheet, trackCode, dateToken, race)))]]

\* summary[race].written, -1 standing for 'Header not found.'
PopulateSummary(sheet, trackCode, dateToken, missingHeaders) ==
    [race \in RaceNumbers |->
        IF race \in missingHeaders THEN -1
        ELSE Len(buildRaceEntryMap_(sheet, trackCode, dateToken, race))]

\* Whether populateTeeSheetFromDatabase throws before it reads a row
PopulateThrows ==
    \/ DATABASE_SHEET_NAME \notin Range(allSheets)
    \/ TEE_SHEET_NAME \notin Range(allSheets)
    \/ TrackCodeMissing

\* What populateTeeSheetFromDatabase returns
PopulateResult(yesterday, missingHeaders) ==
    [success |-> TRUE, date |-> yesterday, missingHeaders |-> missingHeaders,
     racesProcessed |-> PopulateSummary(databaseSheet, getTrackCodeFromDatabaseSheet_,
                                        removeDashes(yesterday), missingHeaders)]

\* One call of populateTeeSheetFromDatabase; yesterday is the ISO date before
\* the call, missingHeaders the races whose header TEE does not hold
populateTeeSheetFromDatabase(yesterday, missingHeaders) ==
    /\ IF PopulateThrows
       THEN /\ call' = [handler |-> "populateTeeSheetFromDatabase", threw |-> TRUE,
                        result |-> NoResult]
            /\ UNCHANGED sheetBlocks
       ELSE /\ sheetBlocks' = [sheetBlocks EXCEPT ![TEE_SHEET_NAME] =
                                 PopulateBlocks(@, databaseSheet,
                                                getTrackCodeFromDatabaseSheet_,
                                                removeDashes(yesterday), missingHeaders)]
            /\ call' = [handler |-> "populateTeeSheetFromDatabase", threw |-> FALSE,
                        result |-> PopulateResult(yesterday, missingHeaders)]
    /\ UNCHANGED <<dbVars, batch, allSheets, syncFlag, sheetFormulas, ag2, teeProgress,
                   now, runVars, config, request, totalsSheet>>

\* Whether syncDatabaseSheet throws: no DATABASE sheet, no track code, no API
\* key, or an entries response that is not 200 with success:true
SyncDatabaseSheetThrows(entriesResp) ==
    \/ DATABASE_SHEET_NAME \notin Range(allSheets)
    \/ TrackCodeMissing
    \/ ApiKeyMissing
    \/ EntriesFetchThrows(entriesResp)

\* One call of syncDatabaseSheet
syncDatabaseSheet(yesterday, entriesResp, winnersResp) ==
    /\ IF SyncDatabaseSheetThrows(entriesResp)
       THEN /\ call' = [handler |-> "syncDatabaseSheet", threw |-> TRUE,
                        result |-> NoResult]
            /\ UNCHANGED <<databaseSheet, lastSync>>
       ELSE \E r \in {SyncResult(databaseSheet, yesterday, getTrackCodeFromDatabaseSheet_,
                                 entriesResp.entries, fetchWinnersForTrack_(winnersResp))} :
              /\ databaseSheet' = r.sheet
              /\ lastSync' = r.summary
              /\ call' = [handler |-> "syncDatabaseSheet", threw |-> FALSE,
                          result |-> [success |-> TRUE, summary |-> r.summary]]
    /\ UNCHANGED <<backend, batch, workbookVars, teeProgress, now, runVars,
                   config, request, totalsSheet>>

\* One call of runDailyTrackingSync: syncDatabaseSheet, then
\* populateTeeSheetFromDatabase; an exception of either ends the call
runDailyTrackingSync(yesterday, entriesResp, winnersResp, missingHeaders) ==
    /\ IF SyncDatabaseSheetThrows(entriesResp) \/ PopulateThrows
       THEN /\ call' = [handler |-> "runDailyTrackingSync", threw |-> TRUE,
                        result |-> NoResult]
            /\ IF SyncDatabaseSheetThrows(entriesResp)
               THEN UNCHANGED <<databaseSheet, lastSync>>
               ELSE \E r \in {SyncResult(databaseSheet, yesterday,
                                         getTrackCodeFromDatabaseSheet_, entriesResp.entries,
                                         fetchWinnersForTrack_(winnersResp))} :
                      /\ databaseSheet' = r.sheet
                      /\ lastSync' = r.summary
            /\ UNCHANGED sheetBlocks
       ELSE \E r \in {SyncResult(databaseSheet, yesterday, getTrackCodeFromDatabaseSheet_,
                                 entriesResp.entries, fetchWinnersForTrack_(winnersResp))} :
              /\ databaseSheet' = r.sheet
              /\ lastSync' = r.summary
              /\ sheetBlocks' = [sheetBlocks EXCEPT ![TEE_SHEET_NAME] =
                                   PopulateBlocks(@, r.sheet, getTrackCodeFromDatabaseSheet_,
                                                  removeDashes(yesterday), missingHeaders)]
              /\ call' = [handler |-> "runDailyTrackingSync", threw |-> FALSE,
                          result |-> [success |-> TRUE, summary |-> r.summary,
                                      missingHeaders |-> missingHeaders]]
    /\ UNCHANGED <<backend, batch, allSheets, syncFlag, sheetFormulas, ag2, teeProgress,
                   now, runVars, config, request, totalsSheet>>

-----------------------------------------------------------------------------
(* isSafeNumber, sanitizeEntry, sanitizeRaces and sendDataToBackend *)

\* Values of the script.  A number is NaN, an infinity, or the finite number
\* of magnitude hi * 10^9 + lo (+ 1/2 if half) with its sign
undefinedValue == [type |-> "undefined"]
nullValue == [type |-> "null"]
StringValue(chars) == [type |-> "string", chars |-> chars]
BooleanValue(b) == [type |-> "boolean", value |-> b]
NaN == [type |-> "number", kind |-> "NaN"]
Infinity(neg) == [type |-> "number", kind |-> "Infinity", neg |-> neg]
Number(neg, hi, lo, half) ==
    [type |-> "number", kind |-> "finite", neg |-> neg, hi |-> hi, lo |-> lo, half |-> half]

\* 1e15, the default of options.maxAbsValue, and Number.MAX_SAFE_INTEGER
DEFAULT_MAX_ABS_VALUE == [hi |-> 1000000, lo |-> 0, half |-> FALSE]
MAX_SAFE_INTEGER == [hi |-> 9007199, lo |-> 254740991, half |-> FALSE]

\* Math.abs(value) > limit
AbsGreater(value, limit) ==
    \/ value.hi > limit.hi
    \/ /\ value.hi = limit.hi
       /\ \/ value.lo > limit.lo
          \/ value.lo = limit.lo /\ value.half /\ ~ limit.half

\* As isSafeNumber, but without the two checks of the magnitude
isSafeNumber_NoCeiling(value) ==
    IF value.type # "number" THEN FALSE ELSE value.kind = "finite"

\* isSafeNumber(value) with the default options
isSafeNumber(value) ==
    IF value.type # "number" THEN FALSE
    ELSE IF value.kind # "finite" THEN FALSE
    ELSE IF AbsGreater(value, DEFAULT_MAX_ABS_VALUE) THEN FALSE
    ELSE IF AbsGreater(value, MAX_SAFE_INTEGER) THEN FALSE
    ELSE TRUE

numericFields == <<"double", "constant", "correct_p3", "ml", "live_odds", "action",
                   "double_delta", "p3_delta", "x_figure">>
stringFields   == {"p3", "sharp_percent"}
currencyFields == {"will_pay_2", "will_pay", "will_pay_1_p3", "win_pool", "veto_rating"}
copiedFields   == {"horse_number", "raw_data"}

\* The properties that sanitizeEntry reads; a property that an object does
\* not have reads as undefined
EntryFields == Range(numericFields) \cup stringFields \cup currencyFields \cup copiedFields

\* value !== undefined && value !== null
IsPresent(value) == value.type # "undefined" /\ value.type # "null"

\* sanitizeEntry: horse_number and raw_data are copied, a numeric field is
\* set if it is a safe number, a string or currency field if it is present
sanitizeEntry(entry) ==
    [f \in EntryFields |->
        IF f \in copiedFields THEN entry[f]
        ELSE IF f \in Range(numericFields)
        THEN IF IsPresent(entry[f]) /\ isSafeNumber(entry[f])
             THEN entry[f] ELSE undefinedValue
        ELSE IF IsPresent(entry[f]) THEN entry[f] ELSE undefinedValue]

\* sanitizeRaces: every race keeps its properties, its entries are sanitized
sanitizeRaces(races) ==
    [r \in DOMAIN races |->
        [races[r] EXCEPT !.entries = [e \in DOMAIN @ |-> sanitizeEntry(@[e])]]]

\* The tracks of 00-Config.js
tracks ==
    << [trackName |-> <<"A", "Q", "U", "E", "D", "U", "C", "T">>, trackCode |-> <<"A", "Q", "U">>],
       [trackName |-> <<"B", "E", "L", "M", "O", "N", "T">>, trackCode |-> <<"B", "E", "L">>],
       [trackName |-> <<"C", "H", "U", "R", "C", "H", "I", "L", "L">>, trackCode |-> <<"C", "D">>],
       [trackName |-> <<"D", "E", "L", "M", "A", "R">>, trackCode |-> <<"D", "M", "R">>],
       [trackName |-> <<"F", "A", "I", "R", " ", "G", "R", "O", "U", "N", "D", "S">>, trackCode |-> <<"F", "G">>],
       [trackName |-> <<"G", "U", "L", "F", "S", "T", "R", "E", "A", "M">>, trackCode |-> <<"G", "P">>],
       [trackName |-> <<"M", "O", "N", "M", "O", "U", "T", "H">>, trackCode |-> <<"M", "T", "H">>],
       [trackName |-> <<"O", "A", "K", "L", "A", "W", "N">>, trackCode |-> <<"O", "P">>],
       [trackName |-> <<"P", "A", "R", "X">>, trackCode |-> <<"P", "R", "X">>],
       [trackName |-> <<"S", "A", "N", "T", "A", " ", "A", "N", "I", "T", "A">>, trackCode |-> <<"S", "A">>],
       [trackName |-> <<"S", "A", "R", "A", "T", "O", "G", "A">>, trackCode |-> <<"S", "A", "R">>],
       [trackName |-> <<"T", "A", "M", "P", "A", " ", "B", "A", "Y">>, trackCode |-> <<"T", "A", "M">>],
       [trackName |-> <<"W", "O", "O", "D", "B", "I", "N", "E">>, trackCode |-> <<"W", "O">>] >>

\* getTrackCodeFromTrackName: the code of the first track of that name, or
\* <<>> for null
getTrackCodeFromTrackName(trackName) ==
    IF trackName = <<>> THEN <<>>
    ELSE LET found == {i \in DOMAIN tracks :
                          toUpperCase(tracks[i].trackName) = trim(toUpperCase(trackName))}
         IN  IF found = {} THEN <<>> ELSE tracks[First(found)].trackCode

\* The longest suffix of s whose characters are all in chars
RECURSIVE SuffixIn(_, _)
SuffixIn(s, S) ==
    IF s # <<>> /\ s[Len(s)] \in S
    THEN SuffixIn(SubSeq(s, 1, Len(s) - 1), S) \o <<s[Len(s)]>>
    ELSE <<>>

\* s without its last n characters
DropLast(s, n) == SubSeq(s, 1, Len(s) - n)

LetterChars == Range(UpperAlpha) \cup Range(LowerAlpha)

\* What /^([A-Z\s]+?)\s+(\d{2})-(\d{2})-(\d{2})\s+Race\s+(\d+)$/i finds in
\* the race id, read from its end
ExternalRaceIdMatch(id) ==
    LET number   == SuffixIn(id, DigitChars)
        s1       == DropLast(id, Len(number))
        gap1     == SuffixIn(s1, Whitespace)
        s2       == DropLast(s1, Len(gap1))
        word     == IF Len(s2) >= 4 THEN SubSeq(s2, Len(s2) - 3, Len(s2)) ELSE <<>>
        s3       == DropLast(s2, Len(word))
        gap2     == SuffixIn(s3, Whitespace)
        s4       == DropLast(s3, Len(gap2))
        date     == IF Len(s4) >= 8 THEN SubSeq(s4, Len(s4) - 7, Len(s4)) ELSE <<>>
        prefix   == DropLast(s4, Len(date))
    IN  [matches |->
            /\ number # <<>> /\ gap1 # <<>> /\ gap2 # <<>>
            /\ toUpperCase(word) = <<"R", "A", "C", "E">>
            /\ Len(date) = 8
            /\ \A i \in {1, 2, 4, 5, 7, 8} : IsDigit(date[i])
            /\ date[3] = "-" /\ date[6] = "-"
            /\ Len(prefix) >= 2
            /\ prefix[Len(prefix)] \in Whitespace
            /\ Range(prefix) \subseteq LetterChars \cup Whitespace,
         trackName |-> trim(prefix),
         month |-> IF Len(date) = 8 THEN SubSeq(date, 1, 2) ELSE <<>>,
         day |-> IF Len(date) = 8 THEN SubSeq(date, 4, 5) ELSE <<>>,
         year |-> IF Len(date) = 8 THEN SubSeq(date, 7, 8) ELSE <<>>,
         number |-> number]

\* String.prototype.padStart(2, '0')
padStart2(s) == IF Len(s) < 2 THEN <<"0">> \o s ELSE s

\* convertRaceIdToInternalFormat: "GULFSTREAM 09-05-25 Race 03" becomes
\* "GP_20250905_03"; <<>> stands for null
convertRaceIdToInternalFormat(externalRaceId) ==
    LET match == ExternalRaceIdMatch(externalRaceId)
    IN  IF ~ match.matches THEN <<>>
        ELSE IF getTrackCodeFromTrackName(match.trackName) = <<>> THEN <<>>
        ELSE getTrackCodeFromTrackName(match.trackName) \o <<"_", "2", "0">> \o match.year
               \o match.month \o match.day \o <<"_">> \o padStart2(match.number)

\* converted[internalRaceId] = {...winner, race_id: internalRaceId}: the
\* property is added at the end, or overwritten in place
SetWinner(converted, internalRaceId, winner) ==
    LET at == {i \in DOMAIN converted : converted[i].key = internalRaceId}
        w  == [key |-> internalRaceId,
               winner |-> [winner EXCEPT !.race_id = StringValue(internalRaceId)]]
    IN  IF at = {} THEN Append(converted, w) ELSE [converted EXCEPT ![First(at)] = w]

\* convertRaceWinnersToInternalFormat: an object is the sequence of its
\* properties [key, winner] in insertion order
RECURSIVE convertRaceWinnersToInternalFormat(_, _)
convertRaceWinnersToInternalFormat(raceWinners, converted) ==
    IF raceWinners = <<>> THEN converted
    ELSE convertRaceWinnersToInternalFormat(Tail(raceWinners),
            IF convertRaceIdToInternalFormat(Head(raceWinners).key) # <<>>
            THEN SetWinner(converted, convertRaceIdToInternalFormat(Head(raceWinners).key),
                           Head(raceWinners).winner)
            ELSE converted)

\* The validation pass of sendDataToBackend: delete entry[field] for every
\* numeric field that is not undefined and not a safe number
RemoveUnsafe(races) ==
    [r \in DOMAIN races |->
        [races[r] EXCEPT !.entries =
            [e \in DOMAIN @ |->
                [f \in EntryFields |->
                    IF f \in Range(numericFields) /\ @[e][f] # undefinedValue
                         /\ ~ isSafeNumber(@[e][f])
                    THEN undefinedValue ELSE @[e][f]]]]]

\* What JSON.stringify writes for a value: null for NaN and the infinities
stringifyValue(value) ==
    IF value.type = "number"
    THEN (IF value.kind = "finite" THEN value ELSE nullValue)
    ELSE value

\* JSON.stringify(sanitizedData)
stringify(data) ==
    [source |-> data.source,
     races |-> [r \in DOMAIN data.races |->
                  [race_id |-> data.races[r].race_id,
                   race_number |-> stringifyValue(data.races[r].race_number),
                   entries |-> [e \in DOMAIN data.races[r].entries |->
                                  [f \in EntryFields |->
                                      stringifyValue(data.races[r].entries[e][f])]]]],
     race_winners |-> [w \in DOMAIN data.race_winners |->
                         [key |-> data.race_winners[w].key,
                          winner |-> [f \in DOMAIN data.race_winners[w].winner |->
                                        stringifyValue(data.race_winners[w].winner[f])]]]]

\* The object that sendDataToBackend builds and validates
SanitizedData(requestData) ==
    [source |-> requestData.source,
     races |-> RemoveUnsafe(sanitizeRaces(requestData.races)),
     race_winners |-> convertRaceWinnersToInternalFormat(requestData.race_winners, <<>>)]

\* A call of sanitizeEntry on the entry that the caller has assembled
SanitizeEntryCall ==
    /\ request.kind = "entry"
    /\ call' = [handler |-> "sanitizeEntry", threw |-> FALSE,
                result |-> sanitizeEntry(request.entry)]
    /\ UNCHANGED <<dbVars, batch, workbookVars, teeProgress, now, runVars, config,
                   totalsSheet, request>>

\* A call of sendDataToBackend on the request data that the caller has
\* assembled: nothing is transmitted without the API key; the backend
\* answers with responseCode
sendDataToBackend(responseCode) ==
    /\ request.kind = "requestData"
    /\ call' = IF ApiKeyMissing
               THEN [handler |-> "sendDataToBackend", threw |-> FALSE,
                     transmitted |-> FALSE, result |-> [success |-> FALSE]]
               ELSE [handler |-> "sendDataToBackend", threw |-> FALSE,
                     transmitted |-> TRUE,
                     payload |-> stringify(SanitizedData(request.requestData)),
                     result |-> [success |-> responseCode = 200]]
    /\ UNCHANGED <<dbVars, batch, workbookVars, teeProgress, now, runVars, config,
                   totalsSheet, request>>

-----------------------------------------------------------------------------
(* cleanNumericValue, cleanCurrencyValue, cleanPercentValue, cleanP3Value,   *)
(* resolveCandidateValue, isValidWillPayValue and hasValidEntryData          *)

\* A finite number written in decimal: int holds the digits before the point
\* without a leading zero (<<>> for 0), frac the digits after the point
\* without a trailing zero (<<>> for a whole number)
Decimal(neg, int, frac) ==
    [type |-> "number", kind |-> "finite", neg |-> neg, int |-> int, frac |-> frac]

RECURSIVE stripLeadingZeros(_)
stripLeadingZeros(s) ==
    IF s # <<>> /\ s[1] = "0" THEN stripLeadingZeros(Tail(s)) ELSE s

RECURSIVE stripTrailingZeros(_)
stripTrailingZeros(s) ==
    IF s # <<>> /\ s[Len(s)] = "0" THEN stripTrailingZeros(SubSeq(s, 1, Len(s) - 1)) ELSE s

\* The longest prefix of s made of decimal digits
RECURSIVE takeDigits(_)
takeDigits(s) ==
    IF s # <<>> /\ IsDigit(s[1]) THEN <<s[1]>> \o takeDigits(Tail(s)) ELSE <<>>

\* s without its first n characters
dropChars(s, n) == SubSeq(s, n + 1, Len(s))

\* s starts with the characters of prefix
startsWith(s, prefix) == Len(s) >= Len(prefix) /\ SubSeq(s, 1, Len(prefix)) = prefix

\* s.replace(/[...]/g, '') for a class of characters
RECURSIVE removeChars(_, _)
removeChars(s, class) ==
    IF s = <<>> THEN <<>>
    ELSE (IF Head(s) \in class THEN <<>> ELSE <<Head(s)>>) \o removeChars(Tail(s), class)

\* s.replace(c, ''): the first occurrence only
RECURSIVE removeFirst(_, _)
removeFirst(s, c) ==
    IF s = <<>> THEN <<>>
    ELSE IF Head(s) = c THEN Tail(s)
    ELSE <<Head(s)>> \o removeFirst(Tail(s), c)

\* s.includes(c)
includes(s, c) == c \in Range(s)

\* The digits int.frac times ten to the power e
RECURSIVE shiftPoint(_, _, _)
shiftPoint(int, frac, e) ==
    IF e = 0 THEN [int |-> int, frac |-> frac]
    ELSE IF e > 0
    THEN IF frac = <<>> THEN shiftPoint(int \o <<"0">>, <<>>, e - 1)
         ELSE shiftPoint(int \o <<Head(frac)>>, Tail(frac), e - 1)
    ELSE IF int = <<>> THEN shiftPoint(<<>>, <<"0">> \o frac, e + 1)
         ELSE shiftPoint(SubSeq(int, 1, Len(int) - 1), <<int[Len(int)]>> \o frac, e + 1)

InfinityChars == <<"I", "n", "f", "i", "n", "i", "t", "y">>

\* The digits after the point at the start of the text, none without a point
ReadFraction(afterInt) ==
    IF afterInt # <<>> /\ afterInt[1] = "." THEN takeDigits(Tail(afterInt)) ELSE <<>>

\* The text after the fraction
AfterFraction(afterInt) ==
    IF afterInt # <<>> /\ afterInt[1] = "."
    THEN dropChars(afterInt, 1 + Len(ReadFraction(afterInt)))
    ELSE afterInt

\* The value of the digits of an exponent part after e or E
ExponentValue(afterE) ==
    IF afterE # <<>> /\ afterE[1] = "-" THEN 0 - parseInt(takeDigits(Tail(afterE)))
    ELSE IF afterE # <<>> /\ afterE[1] = "+" THEN parseInt(takeDigits(Tail(afterE)))
    ELSE parseInt(takeDigits(afterE))

\* The exponent at the start of the text: 0 when there is no e or E
\* followed by digits
ReadExponent(afterFrac) ==
    IF afterFrac # <<>> /\ afterFrac[1] \in {"e", "E"} THEN ExponentValue(Tail(afterFrac))
    ELSE 0

\* The number with the digits of shifted
DecimalOf(neg, shifted) ==
    Decimal(neg, stripLeadingZeros(shifted.int), stripTrailingZeros(shifted.frac))

\* The number read from the text u after the sign, int being its leading digits
ReadNumber(neg, u, int, afterInt) ==
    IF startsWith(u, InfinityChars) THEN Infinity(neg)
    ELSE IF int = <<>> /\ ReadFraction(afterInt) = <<>> THEN NaN
    ELSE DecimalOf(neg, shiftPoint(int, ReadFraction(afterInt),
                                   ReadExponent(AfterFraction(afterInt))))

\* The number read from the text u after the sign
ReadUnsigned(neg, u) == ReadNumber(neg, u, takeDigits(u), dropChars(u, Len(takeDigits(u))))

\* The number read from a text without leading whitespace
ReadSigned(t) ==
    IF t # <<>> /\ t[1] \in {"+", "-"} THEN ReadUnsigned(t[1] = "-", Tail(t))
    ELSE ReadUnsigned(FALSE, t)

\* parseFloat(s): leading whitespace is skipped, then the longest prefix that
\* is a decimal literal (sign, digits, point, digits, exponent) or Infinity is
\* read; NaN if there is none
parseFloat(s) == ReadSigned(trimStart(s))

\* Number.isFinite(value) and the pair !isNaN(value) && isFinite(value) on a
\* number
isFinite(value) == value.type = "number" /\ value.kind = "finite"

\* The digit string s plus one
RECURSIVE increment(_)
increment(s) ==
    IF s = <<>> THEN <<"1">>
    ELSE IF s[Len(s)] = "9" THEN increment(SubSeq(s, 1, Len(s) - 1)) \o <<"0">>
    ELSE SubSeq(s, 1, Len(s) - 1) \o <<Digits[DigitVal(s[Len(s)]) + 2]>>

\* The magnitude of a finite number rounded to two decimals, as toFixed(2)
\* and Intl.NumberFormat round it: the third decimal decides (for a number
\* that is not halfway between two hundredths, where the binary expansion of
\* the number would decide)
roundHundredths(value) ==
    LET f == value.frac \o <<"0", "0", "0">>
        whole == value.int \o <<f[1], f[2]>>
        rounded == IF DigitVal(f[3]) >= 5 THEN increment(whole) ELSE whole
    IN  [int |-> stripLeadingZeros(SubSeq(rounded, 1, Len(rounded) - 2)),
         cents |-> SubSeq(rounded, Len(rounded) - 1, Len(rounded))]

IsZero(value) == value.int = <<>> /\ value.frac = <<>>

\* value.toFixed(2) of a number
toFixed2(value) ==
    IF value.kind = "NaN" THEN <<"N", "a", "N">>
    ELSE IF value.kind = "Infinity"
    THEN (IF value.neg THEN <<"-">> ELSE <<>>) \o InfinityChars
    ELSE LET r == roundHundredths(value)
         IN  (IF value.neg /\ ~ IsZero(value) THEN <<"-">> ELSE <<>>)
               \o (IF r.int = <<>> THEN <<"0">> ELSE r.int) \o <<".">> \o r.cents

\* Number(value.toFixed(2)) of a finite number
toFixed2Number(value) ==
    LET r == roundHundredths(value)
    IN  Decimal(value.neg /\ ~ IsZero(value), r.int, stripTrailingZeros(r.cents))

\* value.toString() of a value that is neither null nor undefined
toString(value) ==
    IF value.type = "string" THEN value.chars
    ELSE IF value.type = "boolean"
    THEN (IF value.value THEN <<"t", "r", "u", "e">> ELSE <<"f", "a", "l", "s", "e">>)
    ELSE IF value.kind = "NaN" THEN <<"N", "a", "N">>
    ELSE IF value.kind = "Infinity"
    THEN (IF value.neg THEN <<"-">> ELSE <<>>) \o InfinityChars
    ELSE (IF value.neg /\ ~ IsZero(value) THEN <<"-">> ELSE <<>>)
           \o (IF value.int = <<>> THEN <<"0">> ELSE value.int)
           \o (IF value.frac = <<>> THEN <<>> ELSE <<".">> \o value.frac)

\* The digits of the whole number hi * 10^9 + lo
LimitDigits(limit) ==
    LET lo == numToString(limit.lo)
        zeros == [i \in 1..(9 - Len(lo)) |-> "0"]
    IN  stripLeadingZeros(numToString(limit.hi) \o zeros \o lo)

\* a > b for two digit strings of the same length
DigitsGreater(a, b) ==
    \E i \in DOMAIN a :
        /\ DigitVal(a[i]) > DigitVal(b[i])
        /\ \A j \in 1..(i - 1) : a[j] = b[j]

\* Math.abs(value) > limit for a finite number and a whole limit
DecimalAbsGreater(value, limit) ==
    LET digits == LimitDigits(limit)
    IN  \/ Len(value.int) > Len(digits)
        \/ /\ Len(value.int) = Len(digits)
           /\ \/ DigitsGreater(value.int, digits)
              \/ value.int = digits /\ value.frac # <<>>

\* 1e10, the ceiling of cleanNumericValue
NUMERIC_MAX_ABS_VALUE == [hi |-> 10, lo |-> 0, half |-> FALSE]

INVALID_VALUES ==
    {<<"S", "C">>, <<"N", "/", "A">>, <<"#", "V", "A", "L", "U", "E", "!">>,
     <<"#", "D", "I", "V", "/", "0", "!">>, <<"F", "A", "L", "S", "E">>, <<>>}

\* No token is allowed by options.allowTokens
NO_TOKENS == {}

\* The tokens that cleanP3Value allows
P3_ALLOW_TOKENS_None == {}
P3_ALLOW_TOKENS == {<<"F", "A", "L", "S", "E">>}

\* A candidate of resolveCandidateValue passes if it is not null, not
\* undefined, not empty once trimmed, and not an invalid token that is not
\* allowed
CandidatePasses(candidate, allowTokens) ==
    /\ IsPresent(candidate)
    /\ LET stringValue == trim(toString(candidate))
       IN  /\ stringValue # <<>>
           /\ ~ (stringValue \notin allowTokens /\ stringValue \in INVALID_VALUES)

\* As resolveCandidateValue, but the display value is never tried
resolveCandidateValue_RawOnly(value, displayValue, allowTokens) ==
    IF CandidatePasses(value, allowTokens)
    THEN [type |-> "object", rawValue |-> value, stringValue |-> trim(toString(value))]
    ELSE nullValue

\* resolveCandidateValue(value, displayValue, {allowTokens}): the raw value
\* first, the display value second
resolveCandidateValue(value, displayValue, allowTokens) ==
    IF CandidatePasses(value, allowTokens)
    THEN [type |-> "object", rawValue |-> value, stringValue |-> trim(toString(value))]
    ELSE IF CandidatePasses(displayValue, allowTokens)
    THEN [type |-> "object", rawValue |-> displayValue,
          stringValue |-> trim(toString(displayValue))]
    ELSE nullValue

\* cleanNumericValue(value, displayValue)
cleanNumericValue(value, displayValue) ==
    IF ~ IsPresent(value) \/ value = StringValue(<<>>) THEN nullValue
    ELSE IF value.type = "number"
    THEN (IF isFinite(value) THEN toFixed2Number(value) ELSE nullValue)
    ELSE LET candidate == resolveCandidateValue(value, displayValue, NO_TOKENS)
         IN  IF candidate = nullValue THEN nullValue
             ELSE IF toUpperCase(trim(candidate.stringValue)) \in INVALID_VALUES
             THEN nullValue
             ELSE LET parsed == parseFloat(removeChars(candidate.stringValue,
                                                       {"$", ","} \cup Whitespace))
                  IN  IF ~ isFinite(parsed) THEN nullValue
                      ELSE LET rounded == toFixed2Number(parsed)
                           IN  IF DecimalAbsGreater(rounded, NUMERIC_MAX_ABS_VALUE)
                               THEN nullValue
                               ELSE IF DecimalAbsGreater(rounded, MAX_SAFE_INTEGER)
                               THEN nullValue
                               ELSE rounded

\* The digit string s with a comma before every group of three digits
RECURSIVE groupThousands(_)
groupThousands(s) ==
    IF Len(s) <= 3 THEN s
    ELSE groupThousands(SubSeq(s, 1, Len(s) - 3)) \o <<",">>
           \o SubSeq(s, Len(s) - 2, Len(s))

\* formatCurrencyString(num) of a finite number: en-US, USD, two decimals
formatCurrencyString(num) ==
    LET r == roundHundredths(num)
    IN  StringValue((IF num.neg THEN <<"-">> ELSE <<>>) \o <<"$">>
                      \o (IF r.int = <<>> THEN <<"0">> ELSE groupThousands(r.int))
                      \o <<".">> \o r.cents)

\* /^\$?\d+[.,]?\d*$/.test(s)
CurrencyShaped(s) ==
    LET u == IF s # <<>> /\ s[1] = "$" THEN Tail(s) ELSE s
        int == takeDigits(u)
        afterInt == dropChars(u, Len(int))
        rest == IF afterInt # <<>> /\ afterInt[1] \in {".", ","}
                THEN Tail(afterInt) ELSE afterInt
    IN  int # <<>> /\ takeDigits(rest) = rest

\* cleanCurrencyValue(value, displayValue): a display value that looks like
\* an amount is preferred
cleanCurrencyValue(value, displayValue) ==
    LET displayStr == IF IsPresent(displayValue) THEN trim(toString(displayValue))
                      ELSE <<>>
        num == parseFloat(removeChars(displayStr, {"$", ","} \cup Whitespace))
        candidate == resolveCandidateValue(value, displayValue, NO_TOKENS)
    IN  IF /\ displayStr # <<>>
           /\ (includes(displayStr, "$") \/ CurrencyShaped(displayStr))
           /\ isFinite(num)
        THEN formatCurrencyString(num)
        ELSE IF candidate = nullValue THEN nullValue
        ELSE LET numValue == parseFloat(removeChars(candidate.stringValue, {"$", ","}))
             IN  IF ~ isFinite(numValue) THEN nullValue
                 ELSE formatCurrencyString(numValue)

\* normalisePercentString(percentString)
normalisePercentString(percentString) ==
    LET sanitised == removeChars(percentString, Whitespace)
        numericPart == parseFloat(removeChars(removeFirst(sanitised, "%"), {","}))
    IN  IF ~ isFinite(numericPart) THEN StringValue(sanitised)
        ELSE StringValue(toFixed2(numericPart) \o <<"%">>)

\* Math.abs(numValue) <= 1
AbsAtMostOne(numValue) ==
    \/ numValue.int = <<>>
    \/ numValue.int = <<"1">> /\ numValue.frac = <<>>

\* numValue * 100
TimesHundred(numValue) ==
    LET shifted == shiftPoint(numValue.int, numValue.frac, 2)
    IN  Decimal(numValue.neg, stripLeadingZeros(shifted.int), shifted.frac)

\* cleanPercentValue(value, displayValue)
cleanPercentValue(value, displayValue) ==
    LET displayCandidate == resolveCandidateValue(displayValue, displayValue, NO_TOKENS)
        candidate == resolveCandidateValue(value, displayValue, NO_TOKENS)
    IN  IF displayCandidate # nullValue /\ includes(displayCandidate.stringValue, "%")
        THEN normalisePercentString(displayCandidate.stringValue)
        ELSE IF candidate = nullValue THEN nullValue
        ELSE LET numValue == parseFloat(removeChars(candidate.stringValue, {","}))
             IN  IF ~ isFinite(numValue) THEN nullValue
                 ELSE IF AbsAtMostOne(numValue) /\ ~ includes(candidate.stringValue, "%")
                 THEN StringValue(toFixed2(TimesHundred(numValue)) \o <<"%">>)
                 ELSE StringValue(toFixed2(numValue) \o <<"%">>)

\* cleanP3Value(value, displayValue)
cleanP3Value(value, displayValue) ==
    LET candidate == resolveCandidateValue(value, displayValue, P3_ALLOW_TOKENS)
    IN  IF candidate = nullValue THEN nullValue
        ELSE IF candidate.stringValue = <<"F", "A", "L", "S", "E">>
        THEN StringValue(<<"F", "A", "L", "S", "E">>)
        ELSE LET numericValue == parseFloat(removeChars(candidate.stringValue, {","}))
             IN  IF isFinite(numericValue) THEN StringValue(toFixed2(numericValue))
                 ELSE IF Len(candidate.stringValue) > 20
                 THEN StringValue(SubSeq(candidate.stringValue, 1, 20))
                 ELSE StringValue(candidate.stringValue)

\* The tokens that make a will-pay value invalid
WILL_PAY_INVALID_VALUES ==
    {<<"S", "C">>, <<"N", "/", "A">>, <<"#", "V", "A", "L", "U", "E", "!">>,
     <<"#", "D", "I", "V", "/", "0", "!">>, <<>>}

\* As isValidWillPayValue, but null passes
isValidWillPayValue_Any(value) == TRUE

\* isValidWillPayValue(value) of a string or null
isValidWillPayValue(value) ==
    IF ~ IsPresent(value) \/ value = StringValue(<<>>) THEN FALSE
    ELSE trim(toUpperCase(toString(value))) \notin WILL_PAY_INVALID_VALUES

\* row[col] of an array of cells, undefined beyond its cells and of a row
\* that is null
CellAt(row, col) ==
    IF row = nullValue THEN undefinedValue
    ELSE IF col \in DOMAIN row THEN row[col]
    ELSE undefinedValue

WILL_PAY_2_COLUMN == 11
WILL_PAY_1_P3_COLUMN == 13

\* columnMap?.field ?? column
ColumnOf(columnMap, field, column) ==
    IF columnMap = nullValue THEN column
    ELSE IF field \in DOMAIN columnMap THEN columnMap[field]
    ELSE column

\* hasValidEntryData(valueRow, displayRow, columnMap)
hasValidEntryData(valueRow, displayRow, columnMap) ==
    LET willPay2Col == ColumnOf(columnMap, "will_pay_2", WILL_PAY_2_COLUMN)
        willPay1P3Col == ColumnOf(columnMap, "will_pay_1_p3", WILL_PAY_1_P3_COLUMN)
        willPay2 == cleanCurrencyValue(CellAt(valueRow, willPay2Col),
                                       CellAt(displayRow, willPay2Col))
        willPay1P3 == cleanCurrencyValue(CellAt(valueRow, willPay1P3Col),
                                         CellAt(displayRow, willPay1P3Col))
    IN  isValidWillPayValue(willPay2) /\ isValidWillPayValue(willPay1P3)

\* A call of one of the cleaning functions on the raw value and the display
\* value of a cell
CleanNumericValueCall ==
    /\ request.kind = "cell"
    /\ call' = [handler |-> "cleanNumericValue", threw |-> FALSE,
                result |-> cleanNumericValue(request.value, request.displayValue)]
    /\ UNCHANGED <<dbVars, batch, workbookVars, teeProgress, now, runVars, config,
                   totalsSheet, request>>

CleanCurrencyValueCall ==
    /\ request.kind = "cell"
    /\ call' = [handler |-> "cleanCurrencyValue", threw |-> FALSE,
                result |-> cleanCurrencyValue(request.value, request.displayValue)]
    /\ UNCHANGED <<dbVars, batch, workbookVars, teeProgress, now, runVars, config,
                   totalsSheet, request>>

CleanPercentValueCall ==
    /\ request.kind = "cell"
    /\ call' = [handler |-> "cleanPercentValue", threw |-> FALSE,
                result |-> cleanPercentValue(request.value, request.displayValue)]
    /\ UNCHANGED <<dbVars, batch, workbookVars, teeProgress, now, runVars, config,
                   totalsSheet, request>>

CleanP3ValueCall ==
    /\ request.kind = "cell"
    /\ call' = [handler |-> "cleanP3Value", threw |-> FALSE,
                result |-> cleanP3Value(request.value, request.displayValue)]
    /\ UNCHANGED <<dbVars, batch, workbookVars, teeProgress, now, runVars, config,
                   totalsSheet, request>>

\* A call of hasValidEntryData on the values and the display values of a row
HasValidEntryDataCall ==
    /\ request.kind = "row"
    /\ call' = [handler |-> "hasValidEntryData", threw |-> FALSE,
                result |-> hasValidEntryData(request.valueRow, request.displayRow,
                                             request.columnMap)]
    /\ UNCHANGED <<dbVars, batch, workbookVars, teeProgress, now, runVars, config,
                   totalsSheet, request>>

-----------------------------------------------------------------------------
(* extractRaceDataFromHistoricalSheet *)

\* A value of the Config object: a number, or undefined for a property
\* that the object does not have
ConfigNumber(n) == [type |-> "number", kind |-> "finite", value |-> n]

\* Config.RACE_NUMBER_MIN, RACE_NUMBER_MAX and MIN_ENTRIES_PER_RACE, which
\* DataIngestionConfig takes over
RACE_NUMBER_MIN == 1
RACE_NUMBER_MAX == 15
MIN_ENTRIES_PER_RACE == 1

\* Config.RACE_NUMBER_PROCESSING_MIN: the Config object has no property of
\* this name, so that reading it gives undefined
RACE_NUMBER_PROCESSING_MIN == undefinedValue

\* n < v for an integer n and a value of Config: the comparison with
\* undefined (NaN as a number) is false
LessThanConfig(n, v) == v.type = "number" /\ n < v.value

\* s.includes(text) for a text of several characters
includesText(s, text) ==
    \E i \in 1..(Len(s) - Len(text) + 1) : SubSeq(s, i, i + Len(text) - 1) = text

\* s.replace(text, ''): the first occurrence of text is removed
RECURSIVE replaceFirstText(_, _)
replaceFirstText(s, text) ==
    IF s = <<>> THEN <<>>
    ELSE IF startsWith(s, text) THEN dropChars(s, Len(text))
    ELSE <<Head(s)>> \o replaceFirstText(Tail(s), text)

\* parseInt(s) of any text: the leading digits after white space, NaN when
\* there are none (the headers of the sheet carry no sign)
parseIntOrNaN(s) ==
    LET digits == takeDigits(trimStart(s))
    IN  IF digits = <<>> THEN NaN ELSE ConfigNumber(parseInt(digits))

RaceWord == <<"R", "A", "C", "E">>
RaceWordAndSpace == <<"R", "A", "C", "E", " ">>

\* formatDateForAPI: MM-DD-YY, null for an empty cell
formatDateForAPI(date) ==
    IF date = nullValue THEN nullValue
    ELSE StringValue(padStart2(numToString(date.value.month)) \o <<"-">>
                       \o padStart2(numToString(date.value.day)) \o <<"-">>
                       \o padStart2(numToString(date.value.year % 100)))

\* `${trackName} ${formattedDate} Race ${raceNum.padStart(2, '0')}`
HistoricalRaceId(trackName, formattedDate, raceNum) ==
    trackName \o <<" ">> \o formattedDate \o <<" ", "R", "a", "c", "e", " ">>
      \o padStart2(raceNum)

\* The body of the loop of extractRaceDataFromHistoricalSheet for the blocks
\* from i on.  headers[i] is column A of the header row of block i, '' for an
\* empty cell; entries[i] is what extractRaceEntries returns for the block.
RECURSIVE ExtractRaceLoop(_, _, _, _, _, _)
ExtractRaceLoop(headers, entries, trackName, formattedDate, i, out) ==
    IF i > Len(headers) THEN out
    ELSE LET raceNumber == headers[i]
             raceNum == trim(replaceFirstText(raceNumber, RaceWordAndSpace))
             raceNumInt == parseIntOrNaN(raceNum)
             raceId == HistoricalRaceId(trackName, formattedDate, raceNum)
             skip == \/ raceNumber = <<>>
                     \/ ~ includesText(raceNumber, RaceWord)
                     \/ raceNumInt.kind = "NaN"
                     \/ raceNumInt.value < RACE_NUMBER_MIN
                     \/ raceNumInt.value > RACE_NUMBER_MAX
                     \/ LessThanConfig(raceNumInt.value, RACE_NUMBER_PROCESSING_MIN)
                     \/ Len(entries[i]) < MIN_ENTRIES_PER_RACE
         IN  ExtractRaceLoop(headers, entries, trackName, formattedDate, i + 1,
                 IF skip THEN out
                 ELSE [races |-> Append(out.races,
                                        [race_id |-> raceId, track |-> trackName,
                                         date |-> formattedDate, race_number |-> raceNum,
                                         block |-> i, entries |-> entries[i]]),
                       raceIds |-> Append(out.raceIds, raceId)])

NoRaces == [races |-> <<>>, raceIds |-> <<>>]

\* extractRaceDataFromHistoricalSheet(sheet), the sheet given by its event
\* date (AB2), its track name (E1), the headers of its race blocks and the
\* entries found in them
extractRaceDataFromHistoricalSheet(eventDateValue, trackName, headers, entries) ==
    IF eventDateValue = nullValue THEN NoRaces
    ELSE IF trackName = <<>> THEN NoRaces
    ELSE IF formatDateForAPI(eventDateValue) = nullValue THEN NoRaces
    ELSE ExtractRaceLoop(headers, entries, trackName,
                         formatDateForAPI(eventDateValue).chars, 1, NoRaces)

\* appendRaceEntriesToSheet_(sheet, headerRow, newEntries) on a block whose
\* 16 rows hold request.rows; the result is the block after the call
AppendRaceEntriesCall ==
    /\ request.kind = "block"
    /\ call' = [handler |-> "appendRaceEntriesToSheet_", threw |-> FALSE,
                result |-> appendRaceEntriesToSheet_(request.rows, request.newEntries)]
    /\ UNCHANGED <<dbVars, batch, workbookVars, teeProgress, now, runVars, config,
                   totalsSheet, request>>

\* writeRaceEntriesToSheet_(sheet, headerRow, entries) and
\* writeRaceBlockToTee_(teeSheet, headerRow, values) on a block whose rows
\* hold request.rows; the result is the rows from the first data row on
WriteRaceEntriesCall ==
    /\ request.kind = "write"
    /\ call' = [handler |-> "writeRaceEntriesToSheet_", threw |-> FALSE,
                result |-> writeRaceEntriesToSheet_(request.rows, request.newEntries)]
    /\ UNCHANGED <<dbVars, batch, workbookVars, teeProgress, now, runVars, config,
                   totalsSheet, request>>

WriteRaceBlockToTeeCall ==
    /\ request.kind = "write"
    /\ call' = [handler |-> "writeRaceBlockToTee_", threw |-> FALSE,
                result |-> writeRaceBlockToTee_(request.rows,
                               [i \in DOMAIN request.newEntries |->
                                   BlockRow(request.newEntries[i])])]
    /\ UNCHANGED <<dbVars, batch, workbookVars, teeProgress, now, runVars, config,
                   totalsSheet, request>>

ExtractRaceDataCall ==
    /\ request.kind = "sheet"
    /\ call' = [handler |-> "extractRaceDataFromHistoricalSheet", threw |-> FALSE,
                result |-> extractRaceDataFromHistoricalSheet(
                               request.eventDateValue, request.trackName,
                               request.headers, request.entries)]
    /\ UNCHANGED <<dbVars, batch, workbookVars, teeProgress, now, runVars, config,
                   totalsSheet, request>>

-----------------------------------------------------------------------------
(* Responses of the backend used to drive the DATABASE sync *)

TARGET_DATE_1 == <<"2", "0", "2", "4", "-", "0", "1", "-", "0", "1">>
TARGET_DATE_2 == <<"2", "0", "2", "4", "-", "0", "1", "-", "0", "2">>

AQU == <<"A", "Q", "U">>
BEL == <<"B", "E", "L">>

\* track_YYYYMMDD_race
RaceId(track, isoDate, race) == track \o <<"_">> \o removeDashes(isoDate) \o <<"_">> \o race

ApiEntry(raceId, horse, ml, age) ==
    [race_id |-> raceId, horse_number |-> horse, ml |-> ml, live_odds |-> ApiNull,
     correct_p3 |-> ApiNull, double |-> ApiNull,
     age |-> age, race_type |-> NullStr, purse |-> NullStr]

ApiWinner(raceId, horse) == [race_id |-> raceId, winning_horse_number |-> horse]

\* Two horses of race 3
SyncEntries ==
    { ApiEntry(RaceId(AQU, TARGET_DATE_1, <<"3">>), 1, 5, <<"3", "U">>),
      ApiEntry(RaceId(AQU, TARGET_DATE_1, <<"3">>), 2, ApiNull, NullStr) }

\* Two different winners of race 3, the race id followed by a blank, and a
\* winner without horse number
SyncWinners ==
    { ApiWinner(RaceId(AQU, TARGET_DATE_1, <<"3">>), 1),
      ApiWinner(RaceId(AQU, TARGET_DATE_1, <<"3">>), 2),
      ApiWinner(RaceId(AQU, TARGET_DATE_1, <<"3">>) \o <<" ">>, 1),
      ApiWinner(RaceId(AQU, TARGET_DATE_1, <<"3">>), 0) }

SyncDates == {TARGET_DATE_1}

EntriesResponses(dom, n) ==
    {[code |-> 200, success |-> TRUE, entries |-> es] : es \in SeqUpTo(dom, n)}
      \cup {[code |-> 500, success |-> FALSE, entries |-> <<>>],
            [code |-> 200, success |-> FALSE, entries |-> <<>>]}

WinnersResponses(dom, n) ==
    {[code |-> 200, success |-> TRUE, winners |-> ws] : ws \in SeqUpTo(dom, n)}
      \cup {[code |-> 404, success |-> FALSE, winners |-> <<>>]}
      \cup {[code |-> 200, success |-> FALSE, winners |-> ws] :
               ws \in {<<CHOOSE w \in dom : w.winning_horse_number > 0>>}}

-----------------------------------------------------------------------------
(* Specification of the DATABASE sync: any response at every call *)

SyncEntriesResponses == EntriesResponses(SyncEntries, MaxEntries)
SyncWinnersResponses == WinnersResponses(SyncWinners, MaxWinners)

NoBackend == <<>>

\* No caller has assembled an entry or a request
NoRequest == [kind |-> "none"]

\* No entry point of the daily jobs has been called
NoCall == [handler |-> "none", threw |-> FALSE]

\* The script properties hold the API key and J1 holds the track code; TOTALS
\* holds no row yet
DailyIdle ==
    /\ config = [apiKey |-> TRUE, trackCodeCell |-> TRACK_CODE_CELL]
    /\ totalsSheet = <<>>
    /\ call = NoCall
    /\ request = NoRequest

DbInit ==
    /\ databaseSheet = EmptySheet
    /\ lastSync = NoSync
    /\ backend = NoBackend
    /\ DailyIdle

\* The cells of a workbook in which no batch has run yet
WorkbookInit(sheets) ==
    /\ allSheets = sheets
    /\ syncFlag = [n \in Range(sheets) |-> Blank]
    /\ sheetFormulas = [n \in Range(sheets) |-> n = TEE_SHEET_NAME]
    /\ sheetBlocks = [n \in Range(sheets) |-> EmptyBlocks]
    /\ ag2 = [n \in Range(sheets) |-> EmptyCell]

\* No batch handler has been called yet
RunsIdle ==
    /\ teeProgress = Blank
    /\ now = 1
    /\ teeRun = NoTeeRun
    /\ roiRun = NoRoiRun
    /\ ingestRun = NoIngestRun

OthersIdle ==
    /\ batch = "DATABASE_SYNC"
    /\ WorkbookInit(<<TEE_SHEET_NAME, DATABASE_SHEET_NAME>>)
    /\ RunsIdle

Init == DbInit /\ OthersIdle

SyncDatabaseSheet ==
    /\ \E isoDate \in SyncDates :
         \E entriesResp \in SyncEntriesResponses :
           \E winnersResp \in SyncWinnersResponses :
             syncDatabaseSheetForDate_(isoDate, entriesResp, winnersResp)
    /\ UNCHANGED backend

Next == SyncDatabaseSheet

Spec == Init /\ [][Next]_vars

-----------------------------------------------------------------------------
(* Specification of repeated syncs: the backend holds fixed lists *)

ResyncDates == {TARGET_DATE_1, TARGET_DATE_2}

ResyncBackends ==
    {[d \in ResyncDates |->
        IF d = TARGET_DATE_1 THEN [entries |-> es, winners |-> ws]
        ELSE [entries |-> es2, winners |-> <<>>]] :
       es \in SeqUpTo(SyncEntries, MaxEntries),
       ws \in SeqUpTo(SyncWinners, MaxWinners),
       es2 \in SeqUpTo({ApiEntry(RaceId(AQU, TARGET_DATE_2, <<"4">>), 1, 2, <<"4", "U">>)}, 1)}

ResyncInit ==
    /\ databaseSheet = EmptySheet
    /\ lastSync = NoSync
    /\ backend \in ResyncBackends
    /\ DailyIdle
    /\ OthersIdle

\* A call whose two requests are answered from the backend, or fail
SyncFromBackend ==
    /\ \E isoDate \in ResyncDates :
         \E entriesUp \in BOOLEAN, winnersUp \in BOOLEAN :
           syncDatabaseSheetForDate_(isoDate,
              IF entriesUp
              THEN [code |-> 200, success |-> TRUE, entries |-> backend[isoDate].entries]
              ELSE [code |-> 500, success |-> FALSE, entries |-> <<>>],
              IF winnersUp
              THEN [code |-> 200, success |-> TRUE, winners |-> backend[isoDate].winners]
              ELSE [code |-> 404, success |-> FALSE, winners |-> <<>>])
    /\ UNCHANGED backend

ResyncNext == SyncFromBackend

SpecResync == ResyncInit /\ [][ResyncNext]_vars

-----------------------------------------------------------------------------
(* Specification of the candidate filter: one candidate per response, with  *)
(* race ids that are accepted and race ids rejected for each reason         *)

FilterDates == {TARGET_DATE_1, TARGET_DATE_2}

FilterRaceIds ==
    { RaceId(AQU, TARGET_DATE_1, <<"3">>),                 \* accepted for date 1
      RaceId(<<"a", "q", "u">>, TARGET_DATE_1, <<"1", "5">>), \* accepted, lower case
      RaceId(AQU, TARGET_DATE_1, <<"0", "3">>),            \* accepted, zero-padded
      RaceId(AQU, TARGET_DATE_2, <<"3">>),                 \* accepted for date 2 only
      RaceId(BEL, TARGET_DATE_1, <<"3">>),                 \* another track
      RaceId(AQU, TARGET_DATE_1, <<"2">>),                 \* below the window
      RaceId(AQU, TARGET_DATE_1, <<"1", "6">>),            \* above the window
      AQU \o <<"_", "2", "0", "2", "4", "0", "1", "1", "_", "3">>,   \* 7-digit date
      AQU \o <<"-">> \o removeDashes(TARGET_DATE_1) \o <<"-", "3">> } \* no underscores

FilterResponses ==
    {[entries |-> <<ApiEntry(id, 1, 5, <<"3", "U">>)>>, winners |-> <<>>] : id \in FilterRaceIds}
      \cup {[entries |-> <<>>, winners |-> <<ApiWinner(id, 1)>>] : id \in FilterRaceIds}

FilterSync ==
    /\ \E isoDate \in FilterDates :
         \E resp \in FilterResponses :
           syncDatabaseSheetForDate_(isoDate,
              [code |-> 200, success |-> TRUE, entries |-> resp.entries],
              [code |-> 200, success |-> TRUE, winners |-> resp.winners])
    /\ UNCHANGED backend

FilterNext == FilterSync

SpecFilter == Init /\ [][FilterNext]_vars

-----------------------------------------------------------------------------
(* Specification of the resumable batches.  The three batches keep their    *)
(* markers in different cells (BS1 and BS2, column G of DATABASE, AG2); a   *)
(* behaviour follows the operator through the handlers of one of them.      *)

TARGET_DATE_3 == <<"2", "0", "2", "4", "-", "0", "1", "-", "0", "3">>
TARGET_DATE_4 == <<"2", "0", "2", "4", "-", "0", "1", "-", "0", "4">>

DATED_SHEET_1 == formatSheetName(removeDashes(TARGET_DATE_1))
DATED_SHEET_2 == formatSheetName(removeDashes(TARGET_DATE_2))
DATED_SHEET_3 == formatSheetName(removeDashes(TARGET_DATE_3))
DATED_SHEET_4 == formatSheetName(removeDashes(TARGET_DATE_4))

\* Time spent by a handler before its loop, and by one unit of its loop (ms)
SetupMs == {1000, 330000}
UnitMs  == {100000, 329000}

\* A unit that fails does so after the shorter time
FailedUnitMs == {100000}

\* A sheet is updated, or updateFormulasInSheet_ throws, or writes of cells
\* fail inside it
TeeOutcomes ==
    [ms : UnitMs, throws : {FALSE}, cellErrors : {FALSE}]
      \cup [ms : FailedUnitMs, throws : {TRUE}, cellErrors : {FALSE}]
      \cup [ms : FailedUnitMs, throws : {FALSE}, cellErrors : {TRUE}]

\* A date is processed, or processDate_ throws, or its first race fails
\* inside the race loop
RoiOutcomes ==
    [ms : UnitMs, throws : {FALSE}, failedRaces : {{}}, cutOff : {FALSE}]
      \cup [ms : UnitMs, throws : {TRUE}, failedRaces : {{}}, cutOff : {FALSE}]
      \cup [ms : FailedUnitMs, throws : {FALSE}, failedRaces : {{MIN_RACE_NUMBER}},
             cutOff : {FALSE}]

\* The host ends the execution between processDate_ and markEntriesAsExtracted_
RoiCutOffOutcomes ==
    [ms : FailedUnitMs, throws : {FALSE}, failedRaces : {{}}, cutOff : {TRUE}]
IngestOutcomes == [ms : UnitMs, success : {TRUE}] \cup [ms : FailedUnitMs, success : {FALSE}]

\* A workbook with two dated sheets, and one without dated sheets
TeeWorkbooks ==
    { <<TEE_SHEET_NAME, DATABASE_SHEET_NAME, NOTES_SHEET_NAME,
        DATED_SHEET_1, DATED_SHEET_2>>,
      <<TEE_SHEET_NAME, DATABASE_SHEET_NAME>> }

TeeInit ==
    /\ batch = "TEE_FORMULA_SYNC"
    /\ DbInit
    /\ \E sheets \in TeeWorkbooks : WorkbookInit(sheets)
    /\ RunsIdle

\* The dated sheets that a call of syncTeeFormulas will go through
TeeWorkList == TeeSheetsToProcess(getDateSheets_(allSheets), getProgressInfo_(teeProgress))

\* TEE holds formulas, or holds none
TeeSync ==
    /\ batch = "TEE_FORMULA_SYNC"
    /\ \/ \E setupMs \in SetupMs :
            \E outcome \in [Range(TeeWorkList) -> TeeOutcomes] :
               syncTeeFormulas(setupMs, 1, outcome)
       \/ syncTeeFormulas(1000, 0, <<>>)

TeeReset ==
    /\ batch = "TEE_FORMULA_SYNC"
    /\ clearTeeFormulaSyncProgress

\* The workbook before the first column sync: the formulas of a column of
\* TEE have been changed and no dated sheet holds them yet
ColumnInit ==
    /\ batch = "TEE_COLUMN_SYNC"
    /\ DbInit
    /\ \E sheets \in TeeWorkbooks : WorkbookInit(sheets)
    /\ RunsIdle

\* Writes of cells fail inside updateColumnsInSheet_, or do not
ColumnOutcomes == [ms : UnitMs, cellErrors : BOOLEAN]

\* The operator calls syncTeeFormulasColumn with a column or without one;
\* the column of TEE holds formulas, or holds none
ColumnSync ==
    /\ batch = "TEE_COLUMN_SYNC"
    /\ \/ \E setupMs \in SetupMs :
            \E outcome \in [Range(getDateSheets_(allSheets)) -> ColumnOutcomes] :
               syncTeeFormulasColumn(TRUE, setupMs, 1, outcome)
       \/ \E hasColumns \in BOOLEAN, teeFormulas \in {0, 1} :
            /\ ~ hasColumns \/ teeFormulas = 0
            /\ syncTeeFormulasColumn(hasColumns, 1000, teeFormulas, <<>>)

\* DATABASE after syncs of two dates: three entries, a winner and the
\* metadata of race 3 of the first date
RoiDatabase ==
    [A_F |-> << [EmptyEntryRow EXCEPT !.race_id = RaceId(AQU, TARGET_DATE_1, <<"3">>),
                                      !.horse_number = 2, !.ml = 5],
                [EmptyEntryRow EXCEPT !.race_id = RaceId(AQU, TARGET_DATE_2, <<"4">>),
                                      !.horse_number = 1, !.ml = 2],
                [EmptyEntryRow EXCEPT !.race_id = RaceId(AQU, TARGET_DATE_1, <<"3">>),
                                      !.horse_number = 1, !.ml = 3] >>,
     G   |-> <<>>,
     L_M |-> << [race_id |-> RaceId(AQU, TARGET_DATE_1, <<"3">>),
                 winning_horse_number |-> 2] >>,
     O_R |-> << [race_id |-> RaceId(AQU, TARGET_DATE_1, <<"3">>), age |-> <<"3", "U">>,
                 race_type |-> <<>>, purse |-> <<>>] >>]

\* The sheets before the first ROI run: none of the dates has its sheet, or
\* the sheet of the first date exists and holds horse 1 of race 3
RoiSheets == <<TEE_SHEET_NAME, DATABASE_SHEET_NAME>>

\* The same DATABASE after the third row has been extracted
RoiDatabasePartlyExtracted == [RoiDatabase EXCEPT !.G = <<EmptyCell, EmptyCell, "TRUE">>]

\* The race blocks of TEE after the card of another day was written into it
TeeCard == [EmptyBlocks EXCEPT ![5].rows = <<[EmptyBlockRow EXCEPT !.horseNumber = 7, !.mlOdds = 4]>>]

\* A workbook whose TEE sheet holds the blocks given
WorkbookHolding(sheets, teeBlocks) ==
    /\ allSheets = sheets
    /\ syncFlag = [n \in Range(sheets) |-> Blank]
    /\ sheetFormulas = [n \in Range(sheets) |-> n = TEE_SHEET_NAME]
    /\ sheetBlocks = [n \in Range(sheets) |->
                        IF n = TEE_SHEET_NAME THEN teeBlocks ELSE EmptyBlocks]
    /\ ag2 = [n \in Range(sheets) |-> EmptyCell]

RoiInit ==
    /\ batch = "ROI_HISTORICAL"
    /\ databaseSheet \in {RoiDatabase, RoiDatabasePartlyExtracted, EmptySheet}
    /\ lastSync = NoSync
    /\ backend = NoBackend
    /\ DailyIdle
    /\ \/ WorkbookInit(RoiSheets)
       \/ /\ WorkbookHolding(RoiSheets, TeeCard)
       \/ /\ allSheets = Append(RoiSheets, DATED_SHEET_1)
          /\ syncFlag = [n \in Range(allSheets) |-> Blank]
          /\ sheetFormulas = [n \in Range(allSheets) |-> TRUE]
          /\ sheetBlocks = [n \in Range(allSheets) |->
                              IF n = DATED_SHEET_1
                              THEN [EmptyBlocks EXCEPT ![3].rows =
                                      <<[EmptyBlockRow EXCEPT !.horseNumber = 1, !.mlOdds = 3]>>]
                              ELSE EmptyBlocks]
          /\ ag2 = [n \in Range(allSheets) |-> EmptyCell]
    /\ RunsIdle

RoiDateTokens == {removeDashes(TARGET_DATE_1), removeDashes(TARGET_DATE_2)}

RoiRun ==
    /\ batch = "ROI_HISTORICAL"
    /\ \E setupMs \in SetupMs :
         \E outcome \in [RoiDateTokens -> RoiOutcomes] :
            processRoiHistorical(setupMs, outcome)

RoiReset ==
    /\ batch = "ROI_HISTORICAL"
    /\ clearRoiHistoricalProgress

IngestSheets == <<UTILITY_SHEET_NAME, TEE_SHEET_NAME, DATED_SHEET_1, DATED_SHEET_2>>

\* The dated sheets hold a race, TEE holds none
IngestInit ==
    /\ batch = "HISTORICAL_INGESTION"
    /\ DbInit
    /\ allSheets = IngestSheets
    /\ syncFlag = [n \in Range(allSheets) |-> Blank]
    /\ sheetFormulas = [n \in Range(allSheets) |-> TRUE]
    /\ sheetBlocks = [n \in Range(allSheets) |->
                        IF datePattern(n)
                        THEN [EmptyBlocks EXCEPT ![3].rows =
                                <<[EmptyBlockRow EXCEPT !.horseNumber = 1, !.mlOdds = 3]>>]
                        ELSE EmptyBlocks]
    /\ ag2 = [n \in Range(allSheets) |-> EmptyCell]
    /\ RunsIdle

\* The sheetNames argument: absent, or one dated sheet
IngestSheetNames == {AllSheetNames, [given |-> TRUE, names |-> <<DATED_SHEET_1>>]}

IngestAll ==
    /\ batch = "HISTORICAL_INGESTION"
    /\ \E sheetNames \in IngestSheetNames, forceReingest \in BOOLEAN,
          setupMs \in {ms \in SetupMs : ms < INGEST_MAX_EXECUTION_TIME_MS} :
         \E outcome \in [Range(IngestSheetsToProcess(sheetNames, forceReingest))
                            -> IngestOutcomes] :
            ingestAllHistoricalSheets(
                [sheetNames |-> sheetNames, forceReingest |-> forceReingest],
                setupMs, outcome)

IngestReset ==
    /\ batch = "HISTORICAL_INGESTION"
    /\ \E sheetNames \in IngestSheetNames : clearAllIngestionMarkers(sheetNames)

\* The dates of the catch-up: DATABASE holds the first, the backend the others
CatchUpDays == <<TARGET_DATE_1, TARGET_DATE_2, TARGET_DATE_3>>

\* What the endpoints hold: race 3 of the second date with horse 2 listed
\* before horse 1, race 4 of the third date with its winner
CatchUpBackend ==
    [d \in Range(CatchUpDays) |->
        IF d = TARGET_DATE_2
        THEN [entries |-> <<ApiEntry(RaceId(AQU, d, <<"3">>), 2, 5, <<"3", "U">>),
                            ApiEntry(RaceId(AQU, d, <<"3">>), 1, ApiNull, NullStr)>>,
              winners |-> <<>>]
        ELSE IF d = TARGET_DATE_3
        THEN [entries |-> <<ApiEntry(RaceId(AQU, d, <<"4">>), 1, 2, NullStr)>>,
              winners |-> <<ApiWinner(RaceId(AQU, d, <<"4">>), 1)>>]
        ELSE [entries |-> <<>>, winners |-> <<>>]]

\* DATABASE after the sync of the first date: horse 1 of race 3
CatchUpDatabase ==
    [EmptySheet EXCEPT !.A_F =
        <<[EmptyEntryRow EXCEPT !.race_id = RaceId(AQU, TARGET_DATE_1, <<"3">>),
                                !.horse_number = 1, !.ml = 3]>>]

\* What the endpoints answer for each date when the entries endpoint fails
\* for the dates in entriesDown and the winners endpoint for all or none
CatchUpResponses(entriesDown, winnersUp) ==
    [d \in DOMAIN backend |->
        [entries |-> IF d \in entriesDown
                     THEN [code |-> 500, success |-> FALSE, entries |-> <<>>]
                     ELSE [code |-> 200, success |-> TRUE, entries |-> backend[d].entries],
         winners |-> IF winnersUp
                     THEN [code |-> 200, success |-> TRUE, winners |-> backend[d].winners]
                     ELSE [code |-> 404, success |-> FALSE, winners |-> <<>>]]]

CatchUpWorkbook == <<TEE_SHEET_NAME, DATABASE_SHEET_NAME, TOTALS_SHEET_NAME>>

CatchUpInit ==
    /\ batch = "CATCH_UP"
    /\ databaseSheet \in {CatchUpDatabase, EmptySheet}
    /\ lastSync = NoSync
    /\ backend = CatchUpBackend
    /\ config \in {[apiKey |-> TRUE, trackCodeCell |-> TRACK_CODE_CELL],
                    [apiKey |-> FALSE, trackCodeCell |-> TRACK_CODE_CELL]}
    /\ totalsSheet = <<>>
    /\ call = NoCall
    /\ request = NoRequest
    /\ WorkbookInit(CatchUpWorkbook)
    /\ RunsIdle

RunCatchUp ==
    /\ batch = "CATCH_UP"
    /\ \E yesterday \in Range(CatchUpDays), entriesDown \in SUBSET Range(CatchUpDays),
          winnersUp \in BOOLEAN :
         runCatchUpRetrieval(DateOfToken(removeDashes(yesterday)),
                             CatchUpResponses(entriesDown, winnersUp))

\* Workbooks with three dated sheets, in tab order or not, or with none
TotalsWorkbooks ==
    { <<TEE_SHEET_NAME, DATABASE_SHEET_NAME, TOTALS_SHEET_NAME,
        DATED_SHEET_2, DATED_SHEET_1, DATED_SHEET_3>>,
      <<TEE_SHEET_NAME, DATABASE_SHEET_NAME, TOTALS_SHEET_NAME>>,
      <<TEE_SHEET_NAME, DATABASE_SHEET_NAME, DATED_SHEET_1>> }

\* TOTALS holds no row, or the row of the first dated sheet typed with dashes
TotalsInit ==
    /\ batch = "DAILY_TOTALS"
    /\ databaseSheet = EmptySheet
    /\ lastSync = NoSync
    /\ backend = NoBackend
    /\ config = [apiKey |-> TRUE, trackCodeCell |-> TRACK_CODE_CELL]
    /\ totalsSheet \in {<<>>, <<[date |-> <<"0", "1", "-", "0", "1", "-", "2", "4">>,
                                  formulas |-> TRUE]>>}
    /\ call = NoCall
    /\ request = NoRequest
    /\ \E sheets \in TotalsWorkbooks : WorkbookInit(sheets)
    /\ RunsIdle

AppendOutcomes == {"ok", "throwsEarly", "throwsLate"}

\* The dated sheets that a call of syncDailyTotals will go through
TotalsWorkList ==
    MissingDates(getDateSheets_(allSheets), getExistingDates_(totalsSheet))

SyncTotals ==
    /\ batch = "DAILY_TOTALS"
    /\ \E outcome \in [Range(TotalsWorkList) -> AppendOutcomes] : syncDailyTotals(outcome)

BatchInit == TeeInit \/ ColumnInit \/ RoiInit \/ IngestInit \/ CatchUpInit \/ TotalsInit

BatchNext ==
    \/ TeeSync \/ TeeReset \/ ColumnSync \/ RoiRun \/ RoiReset \/ IngestAll \/ IngestReset
    \/ RunCatchUp \/ SyncTotals

SpecBatch == BatchInit /\ [][BatchNext]_vars

-----------------------------------------------------------------------------
(* Specification of the ROI extraction when the host may end an execution   *)
(* of processRoiHistorical between processDate_ of a date and the flagging  *)
(* of the rows of the date; the operator keeps invoking the entry points    *)

\* The invocations stay below the time limit
CutOffSetupMs == {ms \in SetupMs : ms < ROI_MAX_EXECUTION_TIME_MS}
CutOffOutcomes == {o \in RoiOutcomes : o.ms \in FailedUnitMs}

\* An invocation that the host lets run to its end
RoiRunToEnd ==
    /\ batch = "ROI_HISTORICAL"
    /\ \E setupMs \in CutOffSetupMs :
         \E outcome \in [RoiDateTokens -> CutOffOutcomes] :
            processRoiHistorical(setupMs, outcome)

\* An invocation that the host ends before the rows of a date are flagged
RoiCutOff ==
    /\ batch = "ROI_HISTORICAL"
    /\ \E setupMs \in CutOffSetupMs :
         \E outcome \in [RoiDateTokens -> CutOffOutcomes \cup RoiCutOffOutcomes] :
            /\ processRoiHistorical(setupMs, outcome)
            /\ roiRun'.cutOff

CutOffNext == RoiRunToEnd \/ RoiCutOff \/ RoiReset

SpecCutOff == RoiInit /\ [][CutOffNext]_vars

-----------------------------------------------------------------------------
(* Specification of repeated TEE formula syncs in which no sheet update     *)
(* fails and the time before the loop stays below the limit; the operator   *)
(* keeps invoking syncTeeFormulas                                           *)

TeeSyncNoFailure ==
    /\ batch = "TEE_FORMULA_SYNC"
    /\ \E setupMs \in {ms \in SetupMs : ms < TEE_MAX_EXECUTION_TIME_MS} :
         \E outcome \in [Range(TeeWorkList)
                            -> [ms : UnitMs, throws : {FALSE}, cellErrors : {FALSE}]] :
            syncTeeFormulas(setupMs, 1, outcome)

TeeFairNext == TeeSyncNoFailure

\* The workbook with four dated sheets: no session has been started, or the
\* first session is under way and has stamped some of the sheets
TeeFairInit ==
    /\ batch = "TEE_FORMULA_SYNC"
    /\ DbInit
    /\ allSheets = <<TEE_SHEET_NAME, DATABASE_SHEET_NAME, NOTES_SHEET_NAME,
                     DATED_SHEET_1, DATED_SHEET_2, DATED_SHEET_3, DATED_SHEET_4>>
    /\ \/ /\ teeProgress = Blank
          /\ now = 1
          /\ syncFlag = [n \in Range(allSheets) |-> Blank]
       \/ /\ teeProgress = 1
          /\ now = 2
          /\ syncFlag \in [Range(allSheets) -> {Blank, teeProgress}]
          /\ \A n \in Range(allSheets) \ Range(getDateSheets_(allSheets)) :
                syncFlag[n] = Blank
    /\ sheetFormulas = [n \in Range(allSheets) |->
                          n = TEE_SHEET_NAME \/ syncFlag[n] # Blank]
    /\ sheetBlocks = [n \in Range(allSheets) |-> EmptyBlocks]
    /\ ag2 = [n \in Range(allSheets) |-> EmptyCell]
    /\ teeRun = NoTeeRun
    /\ roiRun = NoRoiRun
    /\ ingestRun = NoIngestRun

SpecTeeFair == TeeFairInit /\ [][TeeFairNext]_vars /\ WF_vars(TeeFairNext)

-----------------------------------------------------------------------------
(* Specification of repeated historical ingestions: the operator keeps      *)
(* invoking ingestAllHistoricalSheets() with its default options.  The      *)
(* backend rejects the data of some sheets on every attempt and accepts the *)
(* data of the others on every attempt; the ingestion of a sheet takes the  *)
(* same time in every invocation                                            *)

\* UTILITY and three dated sheets, each with a race
IngestFairSheets == <<UTILITY_SHEET_NAME, DATED_SHEET_1, DATED_SHEET_2, DATED_SHEET_3>>

\* The time before the loop and the time of the ingestion of one sheet (ms):
\* the limit of an invocation allows at least one sheet
IngestFairSetupMs == {ms \in SetupMs : ms < INGEST_MAX_EXECUTION_TIME_MS}
IngestFairUnitMs == {100000, INGEST_MAX_EXECUTION_TIME_MS}

\* The sheets of the workbook that ingestAllHistoricalSheets may ingest
IngestableSheets == Range(allSheets) \ IngestSkipNames

\* Some of the sheets are marked already
IngestFairInit ==
    /\ batch = "HISTORICAL_INGESTION"
    /\ databaseSheet = EmptySheet
    /\ lastSync = NoSync
    /\ config = [apiKey |-> TRUE, trackCodeCell |-> TRACK_CODE_CELL]
    /\ totalsSheet = <<>>
    /\ call = NoCall
    /\ request = NoRequest
    /\ allSheets = IngestFairSheets
    /\ backend \in [rejects : SUBSET IngestableSheets,
                    ms : [IngestableSheets -> IngestFairUnitMs]]
    /\ syncFlag = [n \in Range(allSheets) |-> Blank]
    /\ sheetFormulas = [n \in Range(allSheets) |-> TRUE]
    /\ sheetBlocks = [n \in Range(allSheets) |->
                        IF datePattern(n)
                        THEN [EmptyBlocks EXCEPT ![3].rows =
                                <<[EmptyBlockRow EXCEPT !.horseNumber = 1, !.mlOdds = 3]>>]
                        ELSE EmptyBlocks]
    /\ ag2 \in [Range(allSheets) -> {EmptyCell, TrueCell}]
    /\ ag2[UTILITY_SHEET_NAME] = EmptyCell
    /\ RunsIdle

IngestAgain ==
    /\ batch = "HISTORICAL_INGESTION"
    /\ \E setupMs \in IngestFairSetupMs :
         ingestAllHistoricalSheets(
             [sheetNames |-> AllSheetNames, forceReingest |-> FALSE],
             setupMs,
             [n \in IngestableSheets |->
                 [ms |-> backend.ms[n], success |-> n \notin backend.rejects]])

IngestFairNext == IngestAgain

SpecIngestFair == IngestFairInit /\ [][IngestFairNext]_vars /\ WF_vars(IngestFairNext)

-----------------------------------------------------------------------------
(* Specification of the daily jobs: the operator or a trigger calls the     *)
(* entry points of 04-DatabaseSync.js on a workbook that may lack a sheet,  *)
(* the track code or the API key                                            *)

DailyWorkbooks ==
    { <<TEE_SHEET_NAME, DATABASE_SHEET_NAME, TOTALS_SHEET_NAME>>,
      <<TEE_SHEET_NAME, TOTALS_SHEET_NAME>>,
      <<DATABASE_SHEET_NAME, TOTALS_SHEET_NAME>> }

DailyConfigs ==
    { [apiKey |-> TRUE, trackCodeCell |-> <<"a", "q", "u", " ">>],
      [apiKey |-> FALSE, trackCodeCell |-> TRACK_CODE_CELL],
      [apiKey |-> TRUE, trackCodeCell |-> <<>>] }

\* What TEE holds before the first call: a horse in the blocks of races 3 and 5
DailyTeeBlocks ==
    [EmptyBlocks EXCEPT ![3].rows = <<[EmptyBlockRow EXCEPT !.horseNumber = 7, !.mlOdds = 9]>>,
                        ![5].rows = <<[EmptyBlockRow EXCEPT !.horseNumber = 1, !.mlOdds = 4]>>]

DailyInit ==
    /\ batch = "DAILY_SYNC"
    /\ databaseSheet \in {CatchUpDatabase, EmptySheet}
    /\ lastSync = NoSync
    /\ backend = CatchUpBackend
    /\ config \in DailyConfigs
    /\ totalsSheet = <<>>
    /\ call = NoCall
    /\ request = NoRequest
    /\ allSheets \in DailyWorkbooks
    /\ syncFlag = [n \in Range(allSheets) |-> Blank]
    /\ sheetFormulas = [n \in Range(allSheets) |-> n = TEE_SHEET_NAME]
    /\ sheetBlocks = [n \in Range(allSheets) |->
                        IF n = TEE_SHEET_NAME THEN DailyTeeBlocks ELSE EmptyBlocks]
    /\ ag2 = [n \in Range(allSheets) |-> EmptyCell]
    /\ RunsIdle

\* The races whose header a call does not find on TEE
DailyMissingHeaders == {{}, {MIN_RACE_NUMBER}}

\* The dates before the calls of the daily sync
DailyDays == {TARGET_DATE_2, TARGET_DATE_3}

DailySync ==
    \E yesterday \in DailyDays, entriesUp \in BOOLEAN, winnersUp \in BOOLEAN :
       syncDatabaseSheet(yesterday,
           CatchUpResponses(IF entriesUp THEN {} ELSE {yesterday}, winnersUp)[yesterday].entries,
           CatchUpResponses({}, winnersUp)[yesterday].winners)

DailyPopulate ==
    \E yesterday \in Range(CatchUpDays), missingHeaders \in DailyMissingHeaders :
       populateTeeSheetFromDatabase(yesterday, missingHeaders)

DailyRun ==
    \E yesterday \in {TARGET_DATE_2}, entriesUp \in BOOLEAN,
       missingHeaders \in DailyMissingHeaders :
       runDailyTrackingSync(yesterday,
           CatchUpResponses(IF entriesUp THEN {} ELSE {yesterday}, TRUE)[yesterday].entries,
           CatchUpResponses({}, TRUE)[yesterday].winners, missingHeaders)

DailyCatchUp ==
    \E yesterday \in DailyDays, entriesDown \in {{}, {TARGET_DATE_2}} :
       runCatchUpRetrieval(DateOfToken(removeDashes(yesterday)),
                           CatchUpResponses(entriesDown, TRUE))

DailyNext == DailySync \/ DailyPopulate \/ DailyRun \/ DailyCatchUp

SpecDaily == DailyInit /\ [][DailyNext]_vars

-----------------------------------------------------------------------------
(* Specification of the outbound payload: a caller has assembled an entry   *)
(* or the request data, whatever their values, and calls sanitizeEntry or  *)
(* sendDataToBackend                                                        *)

\* Values that a property of an entry may hold: none, null, a string, a
\* boolean, NaN, the infinities, and numbers up to, at and beyond 1e15
PayloadValues ==
    { undefinedValue, nullValue, StringValue(<<"1", "2">>), BooleanValue(TRUE),
      NaN, Infinity(FALSE), Infinity(TRUE),
      Number(FALSE, 0, 0, FALSE), Number(FALSE, 0, 12, FALSE), Number(TRUE, 0, 3, TRUE),
      Number(FALSE, 1000000, 0, FALSE), Number(FALSE, 1000000, 0, TRUE),
      Number(TRUE, 1000000, 1, FALSE), Number(FALSE, 10000000, 0, FALSE) }

\* Values of a property that sanitizeEntry does not check
PassedValues ==
    { undefinedValue, nullValue, StringValue(<<"$", "5">>), Infinity(FALSE),
      Number(FALSE, 10000000, 0, FALSE) }

\* The entry of horse 1 without any other property
BareEntry ==
    [f \in EntryFields |->
        IF f = "horse_number" THEN Number(FALSE, 0, 1, FALSE) ELSE undefinedValue]

\* Entries with one numeric property and one other property set
PayloadEntries ==
    {[BareEntry EXCEPT ![f1] = v1, ![f2] = v2] :
        f1 \in Range(numericFields), v1 \in PayloadValues,
        f2 \in stringFields \cup currencyFields \cup copiedFields, v2 \in PassedValues}

\* The entries of the races of a request
RequestEntries ==
    {[BareEntry EXCEPT ![f1] = v1] :
        f1 \in {"correct_p3", "horse_number", "will_pay"},
        v1 \in {NaN, Infinity(TRUE), Number(FALSE, 0, 12, FALSE),
                Number(FALSE, 10000000, 0, FALSE)}}

RACE_3_OF_AQUEDUCT  == <<"A", "Q", "U", "E", "D", "U", "C", "T", " ", "0", "1", "-", "0", "1", "-", "2", "4", " ", "R", "a", "c", "e", " ", "3">>
RACE_03_OF_AQUEDUCT == <<"a", "q", "u", "e", "d", "u", "c", "t", " ", " ", "0", "1", "-", "0", "1", "-", "2", "4", " ", "r", "a", "c", "e", " ", "0", "3">>
RACE_3_OF_NOWHERE   == <<"N", "O", "W", "H", "E", "R", "E", " ", "0", "1", "-", "0", "1", "-", "2", "4", " ", "R", "a", "c", "e", " ", "3">>
RACE_3_WITHOUT_DATE == <<"A", "Q", "U", "E", "D", "U", "C", "T", " ", "R", "a", "c", "e", " ", "3">>

\* A winner as extractRaceWinnersFromUtilitySheet builds it
Winner(raceId, payout) ==
    [key |-> raceId,
     winner |-> [race_id |-> StringValue(raceId),
                 winning_horse_number |-> Number(FALSE, 0, 1, FALSE),
                 winning_payout_2_dollar |-> payout,
                 extraction_method |-> StringValue(<<"s">>),
                 extraction_confidence |-> StringValue(<<"h">>)]]

WinnerPayouts ==
    {Number(FALSE, 0, 12, FALSE), Number(FALSE, 10000000, 0, FALSE), Infinity(FALSE)}

\* No winner, one winner, or the winner of race 3 followed by one of race 03
RequestWinners ==
    {<<>>}
      \cup {<<Winner(id, payout)>> :
               id \in {RACE_3_OF_AQUEDUCT, RACE_3_OF_NOWHERE, RACE_3_WITHOUT_DATE},
               payout \in WinnerPayouts}
      \cup {<<Winner(RACE_3_OF_AQUEDUCT, Number(FALSE, 10000000, 0, FALSE)),
              Winner(RACE_03_OF_AQUEDUCT, payout)>> : payout \in WinnerPayouts}

RequestData ==
    {[source |-> "historical",
      races |-> <<[race_id |-> RACE_3_OF_AQUEDUCT,
                   race_number |-> Number(FALSE, 0, 3, FALSE),
                   entries |-> <<entry>>]>>,
      race_winners |-> winners] :
        entry \in RequestEntries, winners \in RequestWinners}

PayloadInit ==
    /\ batch = "PAYLOAD"
    /\ databaseSheet = EmptySheet
    /\ lastSync = NoSync
    /\ backend = NoBackend
    /\ config \in {[apiKey |-> TRUE, trackCodeCell |-> TRACK_CODE_CELL],
                    [apiKey |-> FALSE, trackCodeCell |-> TRACK_CODE_CELL]}
    /\ totalsSheet = <<>>
    /\ call = NoCall
    /\ request \in {[kind |-> "entry", entry |-> e] : e \in PayloadEntries}
                     \cup {[kind |-> "requestData", requestData |-> d] : d \in RequestData}
    /\ (request.kind = "entry" => config.apiKey)
    /\ WorkbookInit(<<TEE_SHEET_NAME, DATABASE_SHEET_NAME, UTILITY_SHEET_NAME>>)
    /\ RunsIdle

SendData == \E responseCode \in {200, 500} : sendDataToBackend(responseCode)

PayloadNext == SanitizeEntryCall \/ SendData

SpecPayload == PayloadInit /\ [][PayloadNext]_vars

-----------------------------------------------------------------------------
(* Specification of the value cleaning: a caller holds the raw value and   *)
(* the display value of a cell, or the values and display values of a row, *)
(* and calls one of the cleaning functions on them                         *)

SC_TOKEN == <<"S", "C">>
NA_TOKEN == <<"N", "/", "A">>
VALUE_ERROR == <<"#", "V", "A", "L", "U", "E", "!">>
DIV_ERROR == <<"#", "D", "I", "V", "/", "0", "!">>
FALSE_TOKEN == <<"F", "A", "L", "S", "E">>

\* The tokens of a scratched or broken cell
CellTokens == {SC_TOKEN, NA_TOKEN, VALUE_ERROR, DIV_ERROR, <<>>}

LowerSc == <<"s", "c">>
PaddedSc == <<" ", "S", "C", " ">>
FiveAndAHalf == <<"5", ".", "5">>
DollarAmount == <<"$", "1", ",", "2", "3", "4", ".", "5", "6", "7">>
TwelveBillion == <<"1", "2", "0", "0", "0", "0", "0", "0", "0", "0", "0">>
NearlyOneBillion == <<"9", "9", "9", "9", "9", "9", "9", "9", "9">>
TenBillion == <<"1", "0", "0", "0", "0", "0", "0", "0", "0", "0", "0">>
TenBillionAndACent == <<"1", "0", "0", "0", "0", "0", "0", "0", "0", "0", "0", ".", "0", "1">>
Letters == <<"a", "b", "c">>
PercentShown == <<"1", "8", ".", "2", "2", "%">>
Fraction == <<"0", ".", "1", "8", "2", "2">>
NegativeAmount == <<"-", "2", ".", "0", "0", "6">>
Exponent == <<"1", "e", "1", "1">>
FiveDollars == <<"$", "5", ".", "0", "0">>

\* The strings that a cell may hold or show
CellStrings ==
    CellTokens \cup
    {FALSE_TOKEN, LowerSc, PaddedSc, FiveAndAHalf, DollarAmount, TwelveBillion,
     NearlyOneBillion, TenBillion, TenBillionAndACent, Letters, PercentShown, Fraction,
     NegativeAmount, Exponent}

\* The numbers that getValues may return for a cell
CellNumbers ==
    {Decimal(FALSE, TwelveBillion, <<>>), Decimal(FALSE, NearlyOneBillion, <<>>),
     Decimal(FALSE, <<"5">>, <<"5">>), Decimal(FALSE, <<>>, <<"1", "8", "2", "2">>),
     Decimal(FALSE, <<>>, <<>>), Decimal(TRUE, <<"3">>, <<"4", "5", "6">>)}

\* The raw values and the display values of a cell
RawValues ==
    {nullValue, undefinedValue, BooleanValue(FALSE)}
      \cup {StringValue(t) : t \in CellStrings} \cup CellNumbers
DisplayValues == {nullValue, undefinedValue} \cup {StringValue(t) : t \in CellStrings}

\* The cells of the will-pay columns and of the P3 column of a row, each with
\* its raw value and its display value
WillPayCells ==
    {[value |-> StringValue(t), displayValue |-> StringValue(t)] :
        t \in {SC_TOKEN, NA_TOKEN, <<>>, LowerSc}}
      \cup {[value |-> Decimal(FALSE, <<"5">>, <<>>), displayValue |-> StringValue(FiveDollars)],
            [value |-> Decimal(FALSE, <<"1", "2", "3", "4">>, <<"5", "6", "7">>),
             displayValue |-> StringValue(DollarAmount)]}
OtherCells ==
    {[value |-> StringValue(SC_TOKEN), displayValue |-> StringValue(SC_TOKEN)],
     [value |-> Decimal(FALSE, <<"5">>, <<>>), displayValue |-> StringValue(FiveDollars)]}
P3Cells ==
    {[value |-> StringValue(FALSE_TOKEN), displayValue |-> StringValue(FALSE_TOKEN)],
     [value |-> StringValue(SC_TOKEN), displayValue |-> StringValue(SC_TOKEN)],
     [value |-> Decimal(FALSE, <<"1">>, <<"5">>),
      displayValue |-> StringValue(<<"1", ".", "5", "0">>)]}

P3_COLUMN == 3
OTHER_COLUMN == 12
RowColumns == {P3_COLUMN, WILL_PAY_2_COLUMN, OTHER_COLUMN, WILL_PAY_1_P3_COLUMN}

\* The rows of cells: column 3 holds P3, columns 11 and 13 the will-pays
RowsOfCells ==
    {[col \in RowColumns |->
        IF col = P3_COLUMN THEN p3
        ELSE IF col = WILL_PAY_2_COLUMN THEN willPay2
        ELSE IF col = OTHER_COLUMN THEN other
        ELSE willPay1P3] :
        p3 \in P3Cells, willPay2 \in WillPayCells, other \in OtherCells,
        willPay1P3 \in WillPayCells}

\* No column map, or a map that moves will_pay_2 to column 12
ColumnMaps == {nullValue, [will_pay_2 |-> OTHER_COLUMN]}

\* Inputs of extractRaceDataFromHistoricalSheet: the first RaceBlockCount race
\* blocks of a sheet
RaceBlockCount == 2
RaceHeader(n) == RaceWordAndSpace \o numToString(n)
RaceHeaders ==
    {<<>>, <<"1">>, RaceWord \o <<"3">>, RaceHeader(1), RaceHeader(2), RaceHeader(3),
     RaceHeader(15) \o <<" ">>, RaceHeader(16), RaceWordAndSpace \o <<"X">>}
BlockEntries == {<<>>, <<[horse_number |-> 1]>>}
EventDateValues == {nullValue, [type |-> "date", value |-> [year |-> 2024, month |-> 1, day |-> 2]]}
TrackNames == {<<>>, <<"G", "P">>}

\* Inputs of appendRaceEntriesToSheet_: the prior content of a race block
\* (rows 1 to 16, the rows after the last one given being empty) and the new
\* entries
HorseRow(h) == [EmptyBlockRow EXCEPT !.horseNumber = h, !.mlOdds = 3]
NewEntry(h) == [EmptyBlockRow EXCEPT !.horseNumber = h, !.mlOdds = 5]
FullBlock == [i \in 1..ROI_MAX_HORSES |-> HorseRow(i)]
PriorBlocks ==
    {<<>>, <<HorseRow(1)>>, <<HorseRow(1), HorseRow(3)>>,
     <<HorseRow(1), EmptyBlockRow, HorseRow(3)>>,
     <<EmptyBlockRow, HorseRow(3)>>,
     FullBlock, SubSeq(FullBlock, 1, ROI_MAX_HORSES - 1),
     [FullBlock EXCEPT ![ROI_MAX_HORSES - 1] = EmptyBlockRow]}
MaxNewEntries == 2
NewHorseNumbers == {Blank, 1, 2, 4, ROI_MAX_HORSES + 1}
NewEntryLists ==
    UNION {[1..n -> {NewEntry(h) : h \in NewHorseNumbers}] : n \in 0..MaxNewEntries}

\* Inputs of the writes of a whole race: the entries that DATABASE holds for
\* the race, none, one, as many as the block has rows, or one more
RaceEntryCounts == {0, 1, ROI_MAX_HORSES, ROI_MAX_HORSES + 1}
RaceEntryLists == {[i \in 1..n |-> NewEntry(i)] : n \in RaceEntryCounts}

CleaningRequests ==
    {[kind |-> "cell", value |-> v, displayValue |-> d] :
        v \in RawValues, d \in DisplayValues}
      \cup {[kind |-> "row", cells |-> cells,
             valueRow |-> [col \in RowColumns |-> cells[col].value],
             displayRow |-> IF shown THEN [col \in RowColumns |-> cells[col].displayValue]
                            ELSE nullValue,
             columnMap |-> columnMap] :
            cells \in RowsOfCells, shown \in BOOLEAN, columnMap \in ColumnMaps}
      \cup {[kind |-> "sheet", eventDateValue |-> d, trackName |-> t,
             headers |-> h, entries |-> e] :
            d \in EventDateValues, t \in TrackNames,
            h \in [1..RaceBlockCount -> RaceHeaders],
            e \in [1..RaceBlockCount -> BlockEntries]}
      \cup {[kind |-> "block", rows |-> rows, newEntries |-> newEntries] :
            rows \in PriorBlocks, newEntries \in NewEntryLists}
      \cup {[kind |-> "write", rows |-> rows, newEntries |-> newEntries] :
            rows \in PriorBlocks, newEntries \in RaceEntryLists}

CleaningInit ==
    /\ batch = "CLEANING"
    /\ databaseSheet = EmptySheet
    /\ lastSync = NoSync
    /\ backend = NoBackend
    /\ config = [apiKey |-> TRUE, trackCodeCell |-> TRACK_CODE_CELL]
    /\ totalsSheet = <<>>
    /\ call = NoCall
    /\ request \in CleaningRequests
    /\ WorkbookInit(<<TEE_SHEET_NAME, DATABASE_SHEET_NAME>>)
    /\ RunsIdle

CleaningNext ==
    \/ CleanNumericValueCall
    \/ CleanCurrencyValueCall
    \/ CleanPercentValueCall
    \/ CleanP3ValueCall
    \/ HasValidEntryDataCall
    \/ ExtractRaceDataCall
    \/ AppendRaceEntriesCall
    \/ WriteRaceEntriesCall
    \/ WriteRaceBlockToTeeCall

SpecCleaning == CleaningInit /\ [][CleaningNext]_vars

-----------------------------------------------------------------------------
(* Properties of the DATABASE sync *)

FilledEntryRows(sheet) == {i \in DOMAIN sheet.A_F : sheet.A_F[i].race_id # <<>>}
FilledWinnerRows(sheet) == {i \in DOMAIN sheet.L_M : sheet.L_M[i].race_id # <<>>}

\* C1: when a sync of a date is followed by a second sync of the same date
\* and the entries endpoint returned the same list both times, the second
\* call appends no entry row (columns A-F stay as they are) and reports every
\* fetched entry as skipped.
C1_SecondSyncAppendsNothing ==
    [][(/\ lastSync.called /\ ~ lastSync.threw
        /\ ~ lastSync'.threw
        /\ lastSync'.isoDate = lastSync.isoDate)
       => (/\ lastSync'.appended = 0
           /\ lastSync'.skipped = lastSync'.fetched
           /\ databaseSheet'.A_F = databaseSheet.A_F)]_vars

\* A second sync of two entries that the first sync appended
C1_Witness ==
    /\ lastSync.called /\ ~ lastSync.threw
    /\ lastSync.fetched = 2 /\ lastSync.appended = 0 /\ lastSync.skipped = 2
    /\ Cardinality(FilledEntryRows(databaseSheet)) = 2

\* C2: no two entry rows of DATABASE hold the same race id and horse number
\* in columns A-B.
C2_NoDuplicateEntryKeys ==
    \A i, j \in FilledEntryRows(databaseSheet) :
        (/\ databaseSheet.A_F[i].race_id = databaseSheet.A_F[j].race_id
         /\ databaseSheet.A_F[i].horse_number = databaseSheet.A_F[j].horse_number)
        => i = j

\* One response listed the same race id and horse number twice
C2_Witness ==
    /\ lastSync.called /\ ~ lastSync.threw
    /\ lastSync.fetched = 2 /\ lastSync.appended = 1 /\ lastSync.skipped = 1
    /\ Cardinality(FilledEntryRows(databaseSheet)) = 1

\* C3: the winners table (columns L-M) holds at most one row per race id.
C3_AtMostOneWinnerPerRace ==
    \A i, j \in FilledWinnerRows(databaseSheet) :
        databaseSheet.L_M[i].race_id = databaseSheet.L_M[j].race_id => i = j

\* The race ids of the form CODE_YYYYMMDD_N (N written with one or two
\* digits) with the sheet's track code, the date and a race number 3..15
AcceptableRaceIds(isoDate) ==
    {RaceId(getTrackCodeFromDatabaseSheet_, isoDate, numToString(n)) :
        n \in MIN_RACE_NUMBER..MAX_RACE_NUMBER}
      \cup {RaceId(getTrackCodeFromDatabaseSheet_, isoDate, <<"0">> \o numToString(n)) :
              n \in MIN_RACE_NUMBER..9}

Acceptable(raceId, isoDate) == toUpperCase(trim(raceId)) \in AcceptableRaceIds(isoDate)

\* Rows of a column group that a step filled or changed
WrittenRows(old, new) ==
    {i \in DOMAIN new : new[i].race_id # <<>> /\ (i \notin DOMAIN old \/ old[i] # new[i])}

\* C10: every entry row, winner row and race metadata row that a sync writes
\* carries a race id of the form CODE_YYYYMMDD_N with the sheet's track code,
\* the date token of the target date and a race number in 3..15.
C10_OnlyFilteredCandidatesAppended ==
    [][/\ \A i \in WrittenRows(databaseSheet.A_F, databaseSheet'.A_F) :
            Acceptable(databaseSheet'.A_F[i].race_id, lastSync'.isoDate)
       /\ \A i \in WrittenRows(databaseSheet.L_M, databaseSheet'.L_M) :
            Acceptable(databaseSheet'.L_M[i].race_id, lastSync'.isoDate)
       /\ \A i \in WrittenRows(databaseSheet.O_R, databaseSheet'.O_R) :
            Acceptable(databaseSheet'.O_R[i].race_id, lastSync'.isoDate)]_vars

\* Rows of both dates were appended and a candidate was rejected afterwards
C10_Witness ==
    /\ \E i \in FilledEntryRows(databaseSheet) :
         databaseSheet.A_F[i].race_id = RaceId(AQU, TARGET_DATE_2, <<"3">>)
    /\ \E i \in FilledWinnerRows(databaseSheet) :
         databaseSheet.L_M[i].race_id = RaceId(<<"a", "q", "u">>, TARGET_DATE_1, <<"1", "5">>)
    /\ databaseSheet.O_R # <<>>
    /\ lastSync.fetched = 1 /\ lastSync.skipped = 1 /\ lastSync.appended = 0

\* The sheet row at which a step started to write a column group
StartRow(old, new) == 1 + First(WrittenRows(old, new))

\* The sheet row after the last row whose key cell is filled
RowAfterLastKey(col) == 2 + LastKeyed(col)

\* C11: for each of the three tables (entries keyed on column A, winners on
\* column L, race metadata on column O) the rows a sync appends start at the
\* first row after the last non-empty row of the table's own key column,
\* whatever the lengths of the other two tables.
C11_AppendStartsAfterOwnKeyColumn ==
    [][/\ WrittenRows(databaseSheet.A_F, databaseSheet'.A_F) # {}
            => StartRow(databaseSheet.A_F, databaseSheet'.A_F)
                 = RowAfterLastKey(databaseSheet.A_F)
       /\ WrittenRows(databaseSheet.L_M, databaseSheet'.L_M) # {}
            => StartRow(databaseSheet.L_M, databaseSheet'.L_M)
                 = RowAfterLastKey(databaseSheet.L_M)
       /\ WrittenRows(databaseSheet.O_R, databaseSheet'.O_R) # {}
            => StartRow(databaseSheet.O_R, databaseSheet'.O_R)
                 = RowAfterLastKey(databaseSheet.O_R)]_vars

\* Rows of a column group that hold a record
KeyedRows(col) == {i \in DOMAIN col : col[i].race_id # <<>>}

\* Every record of the column group is where it was, with the same values
RowsKept(old, new) == \A i \in KeyedRows(old) : i \in DOMAIN new /\ new[i] = old[i]

\* The cells of a column group, a group without rows being all empty
SameCells(old, new, empty) ==
    \A i \in DOMAIN old \cup DOMAIN new :
        (IF i \in DOMAIN old THEN old[i] ELSE empty)
          = (IF i \in DOMAIN new THEN new[i] ELSE empty)

\* C12: under syncDatabaseSheetForDate_ every entry, winner and metadata row
\* that existed before a call is still at the same row with the same values
\* after it, and a table to which the call appends nothing keeps every cell
\* (as does column G).
C12_TablesAreAppendOnly ==
    [][/\ RowsKept(databaseSheet.A_F, databaseSheet'.A_F)
       /\ RowsKept(databaseSheet.L_M, databaseSheet'.L_M)
       /\ RowsKept(databaseSheet.O_R, databaseSheet'.O_R)
       /\ lastSync'.appended = 0
            => SameCells(databaseSheet.A_F, databaseSheet'.A_F, EmptyEntryRow)
       /\ lastSync'.winnersAppended = 0
            => SameCells(databaseSheet.L_M, databaseSheet'.L_M, EmptyWinnerRow)
       /\ lastSync'.racesMetadataAppended = 0
            => SameCells(databaseSheet.O_R, databaseSheet'.O_R, EmptyMetaRow)
       /\ databaseSheet'.G = databaseSheet.G]_vars

\* A sync appended a winner below an existing winner and no entry, the
\* entries table holding rows already
C12_Witness ==
    /\ lastSync.called /\ ~ lastSync.threw
    /\ lastSync.winnersAppended = 1 /\ lastSync.appended = 0
    /\ Cardinality(KeyedRows(databaseSheet.L_M)) = 2
    /\ KeyedRows(databaseSheet.A_F) # {}

\* A response with a non-200 status or success:false
Failed(resp) == resp.code # 200 \/ resp.success = FALSE

\* C15: a call of syncDatabaseSheetForDate_ whose entries request is answered
\* with a non-200 status or success:false fails and leaves every cell of
\* DATABASE as it was, whatever the winners endpoint answers.
C15_EntriesFailureWritesNothing ==
    [][\A isoDate \in SyncDates, entriesResp \in SyncEntriesResponses,
          winnersResp \in SyncWinnersResponses :
          (Failed(entriesResp)
             /\ syncDatabaseSheetForDate_(isoDate, entriesResp, winnersResp))
          => /\ lastSync'.threw
             /\ lastSync'.appended = 0
             /\ lastSync'.racesMetadataAppended = 0
             /\ lastSync'.winnersAppended = 0
             /\ databaseSheet' = databaseSheet]_vars

\* A call failed on a sheet that holds the rows of an earlier call
C15_Witness ==
    /\ lastSync.called /\ lastSync.threw
    /\ KeyedRows(databaseSheet.A_F) # {}
    /\ KeyedRows(databaseSheet.O_R) # {}

\* C16: a call whose winners request is answered with a non-200 status or
\* success:false while the entries request succeeds does not fail: it writes
\* what a call with an empty list of winners writes, returns the same
\* summary, and appends no winner row.
C16_WinnersFailureMeansNoWinners ==
    [][\A isoDate \in SyncDates, entriesResp \in SyncEntriesResponses,
          winnersResp \in SyncWinnersResponses :
          (~ Failed(entriesResp) /\ Failed(winnersResp)
             /\ syncDatabaseSheetForDate_(isoDate, entriesResp, winnersResp))
          => /\ ~ lastSync'.threw
             /\ lastSync'.winnersAppended = 0
             /\ SameCells(databaseSheet.L_M, databaseSheet'.L_M, EmptyWinnerRow)
             /\ lastSync'.appended
                  = Cardinality(WrittenRows(databaseSheet.A_F, databaseSheet'.A_F))
             /\ lastSync'.racesMetadataAppended
                  = Cardinality(WrittenRows(databaseSheet.O_R, databaseSheet'.O_R))
             /\ syncDatabaseSheetForDate_(isoDate, entriesResp,
                    [code |-> 200, success |-> TRUE, winners |-> <<>>])]_vars

\* The first call appended two entries and the metadata of their race, and
\* no winner
C16_Witness ==
    /\ lastSync.called /\ ~ lastSync.threw
    /\ lastSync.appended = 2 /\ lastSync.racesMetadataAppended = 1
    /\ lastSync.winnersAppended = 0
    /\ KeyedRows(databaseSheet.L_M) = {}

\* The winner candidates of a response that a call appended: for each race
\* id among the written rows, its first candidate with a horse number
RECURSIVE KeptWinners(_, _)
KeptWinners(winners, writtenIds) ==
    IF winners = <<>> THEN <<>>
    ELSE IF Head(winners).race_id \in writtenIds
              /\ Head(winners).winning_horse_number # 0
              /\ Head(winners).winning_horse_number # ApiNull
         THEN <<Head(winners)>>
                \o KeptWinners(Tail(winners), writtenIds \ {Head(winners).race_id})
         ELSE KeptWinners(Tail(winners), writtenIds)

\* The race ids of the winner rows that a step wrote
WrittenWinnerIds ==
    {databaseSheet'.L_M[i].race_id : i \in WrittenRows(databaseSheet.L_M, databaseSheet'.L_M)}

\* Every fetched entry is appended or counted as skipped
EntriesAccounted == lastSync.fetched = lastSync.appended + lastSync.skipped

\* C17: in the summary of a call every fetched entry is appended or skipped
\* (fetched = appended + skipped), and a call that discards a winner candidate
\* returns a summary in which a counter is higher than in the summary of the
\* same call without the discarded candidates.
C17_EveryDiscardIsCounted ==
    [][/\ EntriesAccounted'
       /\ \A isoDate \in SyncDates, entriesResp \in SyncEntriesResponses,
             winnersResp \in SyncWinnersResponses :
             (/\ ~ Failed(entriesResp) /\ ~ Failed(winnersResp)
              /\ syncDatabaseSheetForDate_(isoDate, entriesResp, winnersResp)
              /\ Len(winnersResp.winners) > lastSync'.winnersAppended)
             => lastSync' # SyncResult(databaseSheet, isoDate,
                                       getTrackCodeFromDatabaseSheet_,
                                       entriesResp.entries,
                                       KeptWinners(winnersResp.winners,
                                                   WrittenWinnerIds)).summary]_vars

-----------------------------------------------------------------------------
(* Properties of the resumable batches *)

\* The session marker under which a call of syncTeeFormulas works: the one
\* it found in BS1, or the one it wrote there
SessionMarker(run, time) == IF run.isResuming THEN run.startTime ELSE time

\* The sheets and the dates whose processing failed in a call: those of the
\* catch block of the handler and those of the catch blocks below it
FailedSheets(run) == Range(run.errors) \cup Range(run.cellErrors)
FailedDates(run)  == Range(run.errors) \cup Range(run.raceErrors)

\* A cell of column G (row index i is sheet row i + 1)
Cell(col, i) == IF i \in DOMAIN col THEN col[i] ELSE EmptyCell

\* The rows of DATABASE that wait for the ROI processing of a date
PendingRows(sheet, d) ==
    {i \in DOMAIN sheet.A_F : RoiDateOfRow(sheet.A_F[i], Cell(sheet.G, i)) = d}

\* The dated sheets from position k of a work list on
From(list, k) == {list[j] : j \in {i \in DOMAIN list : i >= k}}

\* C4: when a call of syncTeeFormulas was stopped by the time limit after it
\* completed sheet A and before sheet B, and the session marker is still in
\* BS1, the next call skips A and has B in its work list - whether the
\* stopped call resumed the session or started it.
C4_ResumeSkipsCompleted ==
    [][(/\ teeRun.handler = "syncTeeFormulas" /\ teeRun.timedOut
        /\ teeRun.processed # <<>>
        /\ teeProgress # Blank
        /\ teeRun'.handler = "syncTeeFormulas" /\ teeRun'.looped)
       => (/\ \A a \in Range(teeRun.processed) : a \notin Range(teeRun'.sheetsToProcess)
           /\ \A b \in Range(teeRun.sheetsToProcess) \ Range(teeRun.attempted) :
                b \in Range(teeRun'.sheetsToProcess))]_vars

\* C5 for syncTeeFormulas: a sheet whose update failed does not hold the
\* session marker in BS2 after the call, and the next call has it in its work
\* list and gets to it unless the time limit stops the loop before.
C5_Tee ==
    /\ teeRun'.handler = "syncTeeFormulas"
         => \A u \in FailedSheets(teeRun') :
              ~ isSheetSynced_(syncFlag'[u], SessionMarker(teeRun', now))
    /\ (teeRun.handler = "syncTeeFormulas" /\ teeRun'.handler = "syncTeeFormulas"
        /\ teeRun'.looped)
         => \A u \in FailedSheets(teeRun) :
              /\ u \in Range(teeRun'.sheetsToProcess)
              /\ teeRun'.timedOut \/ u \in Range(teeRun'.attempted)

\* C5 for processRoiHistorical: the rows of a date whose processing failed
\* are not marked in column G by the call, and the next call has the date in
\* its list and gets to it unless the time limit stops the loop before.
C5_Roi ==
    /\ roiRun'.handler = "processRoiHistorical"
         => \A d \in FailedDates(roiRun') :
              \A i \in PendingRows(databaseSheet, d) :
                 ~ IsMarkedTrue(Cell(databaseSheet'.G, i))
    /\ (roiRun.handler = "processRoiHistorical" /\ roiRun'.handler = "processRoiHistorical"
        /\ ~ roiRun'.noData)
         => \A d \in FailedDates(roiRun) :
              /\ d \in Range(roiRun'.dates)
              /\ roiRun'.timedOut \/ d \in Range(roiRun'.attempted)

\* C5 for ingestAllHistoricalSheets: AG2 of a sheet whose ingestion failed is
\* left as it was, and the next call with the same options has the sheet in
\* its list and gets to it unless the time limit stops the loop before.
C5_Ingest ==
    /\ ingestRun'.handler = "ingestAllHistoricalSheets"
         => \A u \in Range(ingestRun'.failed) : ag2'[u] = ag2[u]
    /\ (/\ ingestRun.handler = "ingestAllHistoricalSheets"
        /\ ingestRun'.handler = "ingestAllHistoricalSheets"
        /\ ingestRun'.sheetNames = ingestRun.sheetNames
        /\ ingestRun'.forceReingest = ingestRun.forceReingest)
         => \A u \in Range(ingestRun.failed) :
              /\ u \in Range(ingestRun'.sheetsToProcess)
              /\ ingestRun'.stoppedEarly \/ u \in Range(ingestRun'.attempted)

\* C5: in each of the three batches a unit whose processing fails is not
\* stamped with its completion marker, and the next invocation processes it
\* again.
C5_FailedUnitNotStampedAndRetried ==
    [][C5_Tee /\ C5_Roi /\ C5_Ingest]_vars

C7_Tee ==
    (teeRun'.handler = "syncTeeFormulas" /\ teeRun'.looped)
      => \A k \in DOMAIN teeRun'.checks :
           teeRun'.checks[k] >= TEE_MAX_EXECUTION_TIME_MS
             => /\ k = Len(teeRun'.checks)
                /\ Len(teeRun'.attempted) = k - 1
                /\ teeRun'.timedOut
                /\ \A u \in From(teeRun'.sheetsToProcess, k) :
                     /\ syncFlag'[u] = syncFlag[u]
                     /\ sheetFormulas'[u] = sheetFormulas[u]
                     /\ ~ isSheetSynced_(syncFlag'[u], SessionMarker(teeRun', now))
                /\ teeProgress' = SessionMarker(teeRun', now)
                /\ teeProgress' # Blank

\* C7 for processRoiHistorical: the check that finds the ceiling reached is
\* the last one, no date is attempted after it, and the dates from there on
\* keep their rows unmarked and their sheets as they were.
C7_Roi ==
    (roiRun'.handler = "processRoiHistorical" /\ ~ roiRun'.noData)
      => \A k \in DOMAIN roiRun'.checks :
           roiRun'.checks[k] >= ROI_MAX_EXECUTION_TIME_MS
             => /\ k = Len(roiRun'.checks)
                /\ Len(roiRun'.attempted) = k - 1
                /\ roiRun'.timedOut
                /\ \A d \in From(roiRun'.dates, k) :
                     /\ PendingRows(databaseSheet', d) = PendingRows(databaseSheet, d)
                     /\ PendingRows(databaseSheet', d) # {}
                     /\ formatSheetName(d) \in Range(allSheets')
                          <=> formatSheetName(d) \in Range(allSheets)
                     /\ formatSheetName(d) \in Range(allSheets)
                          => sheetBlocks'[formatSheetName(d)]
                               = sheetBlocks[formatSheetName(d)]

\* C7: once the check before a unit finds the elapsed time at or above the
\* ceiling, no further unit is processed or stamped in that invocation, the
\* units not reached keep their markers unset and, for syncTeeFormulas, the
\* session marker stays set.
C7_TimeLimitStopsTheLoop ==
    [][C7_Tee /\ C7_Roi]_vars

\* A call of syncTeeFormulas found exactly the ceiling after it completed a
\* sheet, and left the other sheet for the next call
C7_Witness ==
    /\ teeRun.handler = "syncTeeFormulas" /\ teeRun.timedOut
    /\ teeRun.processed # <<>>
    /\ teeRun.checks[Len(teeRun.checks)] = TEE_MAX_EXECUTION_TIME_MS
    /\ Len(teeRun.attempted) < Len(teeRun.sheetsToProcess)
    /\ teeProgress # Blank

\* C8 for syncTeeFormulas: the call after a reset has every dated sheet in
\* its work list.
C8_Tee ==
    (teeRun.handler = "clearTeeFormulaSyncProgress"
     /\ teeRun'.handler = "syncTeeFormulas" /\ teeRun'.looped)
      => /\ teeRun'.sheetsToProcess = getDateSheets_(allSheets)
         /\ teeRun'.skippedSheets = 0

\* C8 for processRoiHistorical: the call after a reset skips no row as
\* extracted already.
C8_Roi ==
    (roiRun.handler = "clearRoiHistoricalProgress"
     /\ roiRun'.handler = "processRoiHistorical" /\ ~ roiRun'.noData)
      => roiRun'.skippedCount = 0

\* C8 for ingestAllHistoricalSheets: the call after a reset has in its list
\* every sheet that the reset covered and that the call was asked for, and
\* after a reset of all sheets it counts no sheet as ingested already.
C8_Ingest ==
    (ingestRun.handler = "clearAllIngestionMarkers"
     /\ ingestRun'.handler = "ingestAllHistoricalSheets")
      => /\ \A n \in Range(allSheets) \ IngestSkipNames :
              (~ NotRequested(ingestRun.sheetNames, n)
               /\ ~ NotRequested(ingestRun'.sheetNames, n))
                => n \in Range(ingestRun'.sheetsToProcess)
         /\ ingestRun.sheetNames = AllSheetNames => ingestRun'.already_ingested = 0

\* C8: after an explicit reset the next invocation of the batch skips no
\* unit on account of a marker, whatever markers were set before the reset.
C8_ResetForcesFullReprocessing ==
    [][C8_Tee /\ C8_Roi /\ C8_Ingest]_vars

\* Sheets were marked as ingested, all markers were reset, and the next call
\* without forceReingest ingested a sheet again
C8_Witness ==
    /\ ingestRun.handler = "ingestAllHistoricalSheets"
    /\ ingestRun.previous.handler = "clearAllIngestionMarkers"
    /\ ingestRun.previous.markersFound > 0
    /\ ingestRun.previous.sheetNames = AllSheetNames
    /\ ~ ingestRun.forceReingest
    /\ ingestRun.already_ingested = 0
    /\ ingestRun.success # <<>>

\* The call of syncTeeFormulas that processed the last remaining sheet and
\* cleared the session marker
TeeSessionCompleted ==
    /\ teeRun.handler = "syncTeeFormulas" /\ teeRun.cleared
    /\ teeProgress = Blank

\* C9: when no sheet update fails and every call has time for at least one
\* sheet, repeated calls of syncTeeFormulas reach a call that processes the
\* last remaining dated sheet and clears the session marker; the same holds
\* from any state in which a session is under way.
C9_SessionEventuallyCompletes ==
    /\ <>TeeSessionCompleted
    /\ (teeProgress # Blank) ~> TeeSessionCompleted

\* A session that took more than one call was completed by a resumed call
C9_Witness ==
    /\ TeeSessionCompleted
    /\ teeRun.isResuming
    /\ teeRun.previous.handler = "syncTeeFormulas"
    /\ Len(teeRun.processed) >= 1


-----------------------------------------------------------------------------
(* Properties of the multi-unit runs *)

\* The positions of a list after position i
After(list, i) == {j \in DOMAIN list : j > i}

\* The dates of the errors that syncDailyTotals returns
ErrorDates(errors) == {errors[k].date : k \in DOMAIN errors}

\* runCatchUpRetrieval returns one result per date of its list, in the order
\* of the list, a failed date with success:false, its date and the error
C13_CatchUp ==
    (call.handler = "runCatchUpRetrieval" /\ ~ call.threw /\ call.result.success)
    => /\ Len(call.result.results) = Len(call.result.dates)
       /\ \A i \in DOMAIN call.result.dates :
             /\ call.result.results[i].date = call.result.dates[i]
             /\ call.result.results[i].error = ~ call.result.results[i].success

\* syncDailyTotals calls appendTotalsRow_ for every missing dated sheet and
\* returns the names of those for which it threw
C13_Totals ==
    (call.handler = "syncDailyTotals" /\ call.result.success)
    => /\ call.result.attempted = call.result.missingDates
       /\ ErrorDates(call.result.errors) \subseteq Range(call.result.missingDates)
       /\ call.result.appended + Len(call.result.errors) = Len(call.result.missingDates)

\* processRoiHistorical: every date after a date for which processDate_ threw
\* is attempted
C13_Roi ==
    roiRun.handler = "processRoiHistorical"
    => \A i \in DOMAIN roiRun.dates :
          roiRun.dates[i] \in Range(roiRun.errors)
          => \A j \in After(roiRun.dates, i) : roiRun.dates[j] \in Range(roiRun.attempted)

\* processRoiHistorical: a date after a failed date is attempted unless the
\* check before it or before an earlier date found the time limit reached
C13_RoiUnlessTimeLimit ==
    roiRun.handler = "processRoiHistorical"
    => \A i \in DOMAIN roiRun.dates :
          roiRun.dates[i] \in Range(roiRun.errors)
          => \A j \in After(roiRun.dates, i) :
                \/ roiRun.dates[j] \in Range(roiRun.attempted)
                \/ /\ roiRun.timedOut
                   /\ Len(roiRun.checks) <= j
                   /\ TimeLimitReached(roiRun.checks[Len(roiRun.checks)],
                                       ROI_MAX_EXECUTION_TIME_MS)

-----------------------------------------------------------------------------
(* Properties of the entry points of the daily jobs *)

\* C14: runDailyTrackingSync, syncDatabaseSheet, runCatchUpRetrieval and
\* populateTeeSheetFromDatabase never raise to their caller: a missing API
\* key, a missing DATABASE or TEE sheet or an empty track-code cell ends the
\* call with a returned object.
C14_EntryPointsReturnASummary ==
    call.handler \in {"runDailyTrackingSync", "syncDatabaseSheet", "runCatchUpRetrieval",
                      "populateTeeSheetFromDatabase"}
    => ~ call.threw

\* A call of populateTeeSheetFromDatabase that returned
PopulateCall(c) == c.handler = "populateTeeSheetFromDatabase" /\ ~ c.threw

\* The race ids CODE_YYYYMMDD_N of a race of a date, N with or without a
\* leading zero
RaceIdsOf(isoDate, race) ==
    {RaceId(getTrackCodeFromDatabaseSheet_, isoDate, numToString(race))}
      \cup (IF race < 10
            THEN {RaceId(getTrackCodeFromDatabaseSheet_, isoDate,
                         <<"0">> \o numToString(race))}
            ELSE {})

\* The rows of columns A-F that hold an entry of the race of the date
EntryRowsOf(sheet, isoDate, race) ==
    {i \in DOMAIN sheet.A_F :
        toUpperCase(trim(sheet.A_F[i].race_id)) \in RaceIdsOf(isoDate, race)}

\* The block rows are the entries of the race of the date, each once, in
\* ascending order of the horse number
BlockHoldsEntries(rows, sheet, isoDate, race) ==
    /\ Len(rows) = Cardinality(EntryRowsOf(sheet, isoDate, race))
    /\ \E f \in [DOMAIN rows -> EntryRowsOf(sheet, isoDate, race)] :
          /\ \A i, j \in DOMAIN rows : f[i] = f[j] => i = j
          /\ \A i \in DOMAIN rows :
                /\ rows[i].horseNumber = NumberOfCell(sheet.A_F[f[i]].horse_number)
                /\ rows[i].mlOdds = sheet.A_F[f[i]].ml
                /\ rows[i].liveOdds = sheet.A_F[f[i]].live_odds
                /\ rows[i].cp3Odds = sheet.A_F[f[i]].correct_p3
                /\ rows[i].double = sheet.A_F[f[i]].double
    /\ \A i, j \in DOMAIN rows : i < j => rows[i].horseNumber <= rows[j].horseNumber

\* C18: after populateTeeSheetFromDatabase every race block of TEE whose
\* header was found holds exactly the DATABASE entries of the target date
\* for that race in ascending horse-number order, whatever it held before (a
\* race without entries ends up empty), the other blocks are as they were,
\* and a second call for the same date and the same headers, DATABASE being
\* unchanged, leaves TEE unchanged.
C18_PopulateIsAnIdempotentReplace ==
    [][PopulateCall(call')
       => /\ \A race \in RaceNumbers \ call'.result.missingHeaders :
                BlockHoldsEntries(sheetBlocks'[TEE_SHEET_NAME][race].rows, databaseSheet',
                                  call'.result.date, race)
          /\ \A race \in call'.result.missingHeaders :
                sheetBlocks'[TEE_SHEET_NAME][race] = sheetBlocks[TEE_SHEET_NAME][race]
          /\ (PopulateCall(call) /\ call.result.date = call'.result.date
                /\ call.result.missingHeaders = call'.result.missingHeaders)
             => sheetBlocks' = sheetBlocks]_vars

\* TEE after a call for the second date: race 3 holds horses 1 and 2, which
\* DATABASE lists as 2 and 1, and the block of race 5 has been emptied
C18_Witness ==
    /\ PopulateCall(call)
    /\ call.result.date = TARGET_DATE_2
    /\ call.result.missingHeaders = {}
    /\ Len(sheetBlocks[TEE_SHEET_NAME][3].rows) = 2
    /\ sheetBlocks[TEE_SHEET_NAME][3].rows[1].horseNumber = 1
    /\ sheetBlocks[TEE_SHEET_NAME][5].rows = <<>>

-----------------------------------------------------------------------------
(* Properties of the outbound payload *)

\* A number that is not NaN, not an infinity, and of magnitude at most 1e15
WithinCeiling(value) ==
    /\ value.type = "number"
    /\ value.kind = "finite"
    /\ \/ value.hi < 1000000
       \/ value.hi = 1000000 /\ value.lo = 0 /\ ~ value.half

\* NaN, an infinity, or a number of magnitude beyond 1e15
UnsafeNumber(value) == value.type = "number" /\ ~ WithinCeiling(value)

\* C19: in the result of sanitizeEntry each of the nine numeric fields is
\* absent or a number within the ceiling, it is absent (and not null) if the
\* field of the entry is NaN, an infinity, beyond the ceiling, null or not a
\* number, and every string and currency field that the entry has is in the
\* result with the same value.
C19_SanitizedNumericFieldsAreSafe ==
    call.handler = "sanitizeEntry"
    => /\ \A f \in {"double", "constant", "correct_p3", "ml", "live_odds", "action",
                    "double_delta", "p3_delta", "x_figure"} :
            /\ call.result[f] = undefinedValue \/ WithinCeiling(call.result[f])
            /\ call.result[f] # nullValue
            /\ ~ WithinCeiling(request.entry[f]) => call.result[f] = undefinedValue
       /\ \A f \in {"p3", "sharp_percent", "will_pay_2", "will_pay", "will_pay_1_p3",
                    "win_pool", "veto_rating"} :
            request.entry[f] \notin {undefinedValue, nullValue}
              => call.result[f] = request.entry[f]

\* correct_p3 = Infinity has been dropped and will_pay, an unsafe number,
\* has been passed through
C19_Witness ==
    /\ call.handler = "sanitizeEntry"
    /\ request.entry["correct_p3"] = Infinity(FALSE)
    /\ call.result["correct_p3"] = undefinedValue
    /\ request.entry["will_pay"] = Infinity(FALSE)
    /\ call.result["will_pay"] = Infinity(FALSE)

\* C20: no number of a transmitted payload is NaN, an infinity or beyond the
\* ceiling, neither in the entries of its races nor in its race winners.
C20_PayloadHasNoUnsafeNumber ==
    (call.handler = "sendDataToBackend" /\ call.transmitted)
    => /\ \A r \in DOMAIN call.payload.races :
            \A e \in DOMAIN call.payload.races[r].entries :
              \A f \in DOMAIN call.payload.races[r].entries[e] :
                ~ UnsafeNumber(call.payload.races[r].entries[e][f])
       /\ \A w \in DOMAIN call.payload.race_winners :
            \A f \in DOMAIN call.payload.race_winners[w].winner :
              ~ UnsafeNumber(call.payload.race_winners[w].winner[f])

-----------------------------------------------------------------------------
(* Properties of the value cleaning *)

\* A finite number of magnitude at most 1e10
WithinTenBillion(value) ==
    /\ value.type = "number"
    /\ value.kind = "finite"
    /\ \/ Len(value.int) < 11
       \/ value.int = TenBillion /\ value.frac = <<>>

\* C21: every result of cleanNumericValue is null or a number of magnitude
\* at most 1e10, whether the raw value is a number or a string.
C21_NumericResultWithinTenBillion ==
    call.handler = "cleanNumericValue"
    => call.result = nullValue \/ WithinTenBillion(call.result)

\* The raw value and the display value of the cell are both the string t
BothAre(t) ==
    /\ request.kind = "cell"
    /\ request.value = StringValue(t)
    /\ request.displayValue = StringValue(t)

\* C22: a cell whose raw and display value are both SC, N/A, #VALUE!, #DIV/0!
\* or the empty string is cleaned to null by cleanNumericValue,
\* cleanCurrencyValue and cleanPercentValue; cleanP3Value returns the string
\* FALSE for the raw value FALSE, while a cell whose raw and display value are
\* FALSE is cleaned to null by cleanNumericValue and cleanPercentValue.
C22_TokensCleanToNullAndFalseIsAP3Value ==
    /\ \A t \in {SC_TOKEN, NA_TOKEN, VALUE_ERROR, DIV_ERROR, <<>>} :
         (/\ BothAre(t)
          /\ call.handler \in {"cleanNumericValue", "cleanCurrencyValue",
                               "cleanPercentValue"})
         => call.result = nullValue
    /\ (/\ call.handler = "cleanP3Value"
        /\ request.value = StringValue(FALSE_TOKEN))
       => call.result = StringValue(FALSE_TOKEN)
    /\ (/\ BothAre(FALSE_TOKEN)
        /\ call.handler \in {"cleanNumericValue", "cleanPercentValue"})
       => call.result = nullValue

\* cleanP3Value has returned FALSE for a cell that holds and shows FALSE
C22_Witness ==
    /\ call.handler = "cleanP3Value"
    /\ BothAre(FALSE_TOKEN)
    /\ call.result = StringValue(FALSE_TOKEN)

\* The raw value is null, undefined, empty, or an invalid token
RawRejected(value) ==
    \/ value \in {nullValue, undefinedValue}
    \/ /\ value.type = "string"
       /\ trim(value.chars) \in {SC_TOKEN, NA_TOKEN, VALUE_ERROR, DIV_ERROR,
                                 FALSE_TOKEN, <<>>}

\* The display values of the model that are numeric strings within the
\* ceiling, each with the number it stands for rounded to two decimals
NumericDisplays ==
    {[shown |-> FiveAndAHalf, number |-> Decimal(FALSE, <<"5">>, <<"5">>)],
     [shown |-> DollarAmount,
      number |-> Decimal(FALSE, <<"1", "2", "3", "4">>, <<"5", "7">>)],
     [shown |-> NearlyOneBillion, number |-> Decimal(FALSE, NearlyOneBillion, <<>>)],
     [shown |-> TenBillion, number |-> Decimal(FALSE, TenBillion, <<>>)],
     [shown |-> Fraction, number |-> Decimal(FALSE, <<>>, <<"1", "8">>)],
     [shown |-> NegativeAmount, number |-> Decimal(TRUE, <<"2">>, <<"0", "1">>)]}

\* C23: when the raw value is rejected (null, undefined, empty or an invalid
\* token) and the display value is an acceptable numeric string,
\* cleanNumericValue returns the number that the display value stands for.
C23_RejectedRawFallsBackToDisplay ==
    \A d \in NumericDisplays :
        (/\ call.handler = "cleanNumericValue"
         /\ RawRejected(request.value)
         /\ request.displayValue = StringValue(d.shown))
        => call.result = d.number

\* The columns from which the call reads will_pay_2 and will_pay_1_p3
CalledWillPay2Column ==
    IF request.columnMap = nullValue THEN WILL_PAY_2_COLUMN
    ELSE request.columnMap.will_pay_2
CalledWillPay1P3Column == WILL_PAY_1_P3_COLUMN

\* The cell holds, or shows to the call, a value that is not null, not
\* undefined and, trimmed and in upper case, outside SC, N/A, #VALUE!, #DIV/0!
\* and the empty string
HoldsAValue(cell) ==
    \E v \in {cell.value}
               \cup (IF request.displayRow = nullValue THEN {} ELSE {cell.displayValue}) :
        /\ v \notin {nullValue, undefinedValue}
        /\ toUpperCase(trim(toString(v)))
             \notin {SC_TOKEN, NA_TOKEN, VALUE_ERROR, DIV_ERROR, <<>>}

\* The cell holds an amount and shows it as dollars
CurrencyCell(cell) ==
    /\ cell.value.type = "number"
    /\ cell.displayValue.type = "string"
    /\ cell.displayValue.chars[1] = "$"

\* The row of the call with another P3 cell
WithP3(p3) ==
    [valueRow |-> [request.valueRow EXCEPT ![P3_COLUMN] = p3.value],
     displayRow |-> IF request.displayRow = nullValue THEN nullValue
                    ELSE [request.displayRow EXCEPT ![P3_COLUMN] = p3.displayValue]]

-----------------------------------------------------------------------------
(* Properties of the resumable batches: extraction flags, ingestion markers, *)
(* TOTALS rows and race blocks                                               *)

\* The rows of DATABASE whose column G holds true, TRUE or True
FlaggedRows(sheet) ==
    {i \in DOMAIN sheet.A_F : Cell(sheet.G, i) \in {TrueCell, "TRUE", "True"}}

\* The date token of the race id of a row whose race number is 3 to 15
\* (<<>> if the race id names no such race)
RowDate(sheet, i) == DateInWindow(matchDateAndRace_(sheet.A_F[i].race_id))

\* The rows of a date that are not flagged, and the dates that have such rows
UnflaggedRowsOf(sheet, d) ==
    {i \in DOMAIN sheet.A_F \ FlaggedRows(sheet) : RowDate(sheet, i) = d}
UnflaggedDates(sheet) ==
    {RowDate(sheet, i) : i \in DOMAIN sheet.A_F \ FlaggedRows(sheet)} \ {<<>>}

\* The horse numbers in the block of a race on a sheet of the workbook
HorsesOnSheet(sheets, blocks, n, r) ==
    IF n \notin Range(sheets) THEN {}
    ELSE {blocks[n][r].rows[k].horseNumber : k \in DOMAIN blocks[n][r].rows} \ {Blank}

\* The horse numbers that the block of a race on a sheet holds before a call
\* writes into it: those of TEE for a sheet that the call copies from TEE
HorsesBefore(n, r) ==
    IF n \in Range(allSheets) THEN HorsesOnSheet(allSheets, sheetBlocks, n, r)
    ELSE HorsesOnSheet(allSheets, sheetBlocks, TEE_SHEET_NAME, r)

\* A call of processRoiHistorical that read rows of DATABASE
RoiCall == roiRun'.handler = "processRoiHistorical" /\ ~ roiRun'.noData

\* The list of dates of a call holds exactly the dates with unflagged rows,
\* and every horse that the call adds to a race block comes from an unflagged
\* row of that date and race
C25_FlaggedRowsAreSkipped ==
    RoiCall
    => /\ Range(roiRun'.dates) = UnflaggedDates(databaseSheet)
       /\ roiRun'.skippedCount = Cardinality(FlaggedRows(databaseSheet))
       /\ \A n \in Range(allSheets'), r \in RaceNumbers :
            \A h \in HorsesOnSheet(allSheets', sheetBlocks', n, r) \ HorsesBefore(n, r) :
               \E d \in Range(roiRun'.attempted) :
                  /\ n = formatSheetName(d)
                  /\ \E i \in UnflaggedRowsOf(databaseSheet, d) :
                        /\ databaseSheet.A_F[i].horse_number = h
                        /\ matchDateAndRace_(databaseSheet.A_F[i].race_id).raceNumber = r

\* A row is flagged by a call only if processDate_ of its date returned, and
\* the rows of a date whose processDate_ threw stay unflagged
C25_FlagFollowsProcessDate ==
    RoiCall
    => /\ \A i \in FlaggedRows(databaseSheet') \ FlaggedRows(databaseSheet) :
            /\ RowDate(databaseSheet, i) \in Range(roiRun'.processed)
            /\ formatSheetName(RowDate(databaseSheet, i)) \in Range(allSheets')
       /\ \A d \in Range(roiRun'.errors) :
            UnflaggedRowsOf(databaseSheet', d) = UnflaggedRowsOf(databaseSheet, d)

\* The call follows a call that the time limit stopped
RoiCallAfterStop ==
    /\ roiRun.handler = "processRoiHistorical" /\ roiRun.timedOut
    /\ RoiCall

\* C25 as stated: processRoiHistorical never processes a row whose flag in
\* column G is TRUE, it flags the rows of a date only after processDate_ of
\* the date returned without throwing, and the call after a time-limit stop
\* processes exactly the dates that still have unflagged rows.
C25_ResumeProcessesExactlyTheUnflaggedDates ==
    [][/\ C25_FlaggedRowsAreSkipped
       /\ C25_FlagFollowsProcessDate
       /\ RoiCallAfterStop
            => Range(roiRun'.attempted) = UnflaggedDates(databaseSheet)]_vars

\* C25: processRoiHistorical never processes a row whose flag in column G is
\* TRUE, it flags the rows of a date only after processDate_ of the date
\* returned without throwing, and the call after a time-limit stop has
\* exactly the dates that still have unflagged rows in its list and goes
\* through them in order, all of them unless its own time limit stops it.
C25_ResumeTakesUpExactlyTheUnflaggedDates ==
    [][/\ C25_FlaggedRowsAreSkipped
       /\ C25_FlagFollowsProcessDate
       /\ RoiCallAfterStop
            => /\ Range(roiRun'.dates) = UnflaggedDates(databaseSheet)
               /\ Len(roiRun'.attempted) <= Len(roiRun'.dates)
               /\ roiRun'.attempted = SubSeq(roiRun'.dates, 1, Len(roiRun'.attempted))
               /\ ~ roiRun'.timedOut => roiRun'.attempted = roiRun'.dates]_vars

\* A call that followed another call has skipped the flagged rows of the
\* first date and processed the second date, the only one left
C25_Witness ==
    /\ roiRun.handler = "processRoiHistorical"
    /\ roiRun.previous.handler = "processRoiHistorical"
    /\ roiRun.skippedCount = 2
    /\ roiRun.dates = <<removeDashes(TARGET_DATE_2)>>
    /\ roiRun.processed = roiRun.dates
    /\ FlaggedRows(databaseSheet) = {1, 2, 3}

\* A call of ingestAllHistoricalSheets
IngestCall == ingestRun'.handler = "ingestAllHistoricalSheets"

\* The sheets of the workbook that are not UTILITY or a template and that
\* the sheetNames option of the call, if given, names
IngestibleSheets ==
    {n \in Range(allSheets) \ {UTILITY_SHEET_NAME, TEMPLATE_SHEET_NAME,
                               RATIO_TEMPLATE_SHEET_NAME} :
        ingestRun'.sheetNames.given => n \in Range(ingestRun'.sheetNames.names)}

\* AG2 of a sheet is changed by a call only to true and only if the sheet is
\* among those whose data the backend accepted
C26_MarkerOnlyAfterSuccess ==
    IngestCall
    => \A n \in Range(allSheets) :
         ag2'[n] # ag2[n]
           => /\ ag2'[n] = TrueCell
              /\ n \in Range(ingestRun'.success)
              /\ n \in Range(ingestRun'.attempted)
              /\ \E r \in DOMAIN sheetBlocks[n] : sheetBlocks[n][r].rows # <<>>

\* A call without forceReingest does not attempt a sheet whose AG2 is TRUE
C26_MarkedSheetIsNotSent ==
    (IngestCall /\ ~ ingestRun'.forceReingest)
    => \A n \in Range(allSheets) :
         ag2[n] \in {TrueCell, "TRUE", "True"} => n \notin Range(ingestRun'.attempted)

\* C26 as stated: AG2 of a sheet is set to TRUE only after sendDataToBackend
\* returned success for the data of the sheet, a call without forceReingest
\* never sends the data of a sheet whose AG2 is TRUE, and a call with
\* forceReingest sends every sheet that is not a utility sheet.
C26_ForcedRunSendsEverySheet ==
    [][/\ C26_MarkerOnlyAfterSuccess
       /\ C26_MarkedSheetIsNotSent
       /\ (IngestCall /\ ingestRun'.forceReingest)
            => \A n \in IngestibleSheets : n \in Range(ingestRun'.attempted)]_vars

\* C26: AG2 of a sheet is set to TRUE only after sendDataToBackend returned
\* success for the data of the sheet, a call without forceReingest never
\* sends the data of a sheet whose AG2 is TRUE, and a call with forceReingest
\* has every sheet that is not a utility sheet in its list, whatever its AG2,
\* and goes through the list in order until the time limit stops it.
C26_ForcedRunListsEverySheet ==
    [][/\ C26_MarkerOnlyAfterSuccess
       /\ C26_MarkedSheetIsNotSent
       /\ (IngestCall /\ ingestRun'.forceReingest)
            => /\ \A n \in IngestibleSheets : n \in Range(ingestRun'.sheetsToProcess)
               /\ Len(ingestRun'.attempted) <= Len(ingestRun'.sheetsToProcess)
               /\ ingestRun'.attempted
                    = SubSeq(ingestRun'.sheetsToProcess, 1, Len(ingestRun'.attempted))
               /\ ~ ingestRun'.stoppedEarly
                    => ingestRun'.attempted = ingestRun'.sheetsToProcess]_vars

\* A call with forceReingest went through all sheets; the backend refused
\* the data of the second dated sheet, whose AG2 had been set by a call before
C26_Witness ==
    /\ ingestRun.handler = "ingestAllHistoricalSheets"
    /\ ingestRun.forceReingest
    /\ ingestRun.attempted = <<TEE_SHEET_NAME, DATED_SHEET_1, DATED_SHEET_2>>
    /\ ingestRun.success = <<DATED_SHEET_1>>
    /\ DATED_SHEET_2 \in Range(ingestRun.failed)
    /\ ag2[DATED_SHEET_2] = TrueCell

\* The rows of TOTALS whose column A holds the name of a dated sheet, typed
\* with slashes or with dashes
TotalsRowsOf(sheet, name) ==
    {i \in DOMAIN sheet :
        [k \in DOMAIN trim(sheet[i].date) |->
            IF trim(sheet[i].date)[k] = "-" THEN "/" ELSE trim(sheet[i].date)[k]] = name}

\* The names of the dated sheets of the workbook
DatedSheetNames == {n \in Range(allSheets) : datePattern(n)}

\* The day that a sheet name MM/dd/yy stands for, as a number that grows
\* with the calendar
DayOfName(name) ==
    parseInt(<<name[7], name[8]>>) * 10000 + parseInt(<<name[1], name[2]>>) * 100
      + parseInt(<<name[4], name[5]>>)

\* The rows of TOTALS that a step has written
WrittenTotalsRows ==
    {i \in DOMAIN totalsSheet' : i \notin DOMAIN totalsSheet \/ totalsSheet'[i] # totalsSheet[i]}

\* TOTALS holds at most one row for each dated sheet
C27_OneRowPerDatedSheet ==
    \A n \in DatedSheetNames : Cardinality(TotalsRowsOf(totalsSheet, n)) <= 1

\* A run that follows a run in which every missing date was appended
\* appends no row
C27_NothingLeftAfterSuccess ==
    (/\ call.handler = "syncDailyTotals"
     /\ call.result.success /\ call.result.errors = <<>>
     /\ call'.handler = "syncDailyTotals")
    => /\ totalsSheet' = totalsSheet
       /\ call'.result.appended = 0
       /\ call'.result.success

\* The rows that a run writes are below the rows that TOTALS held, and their
\* dates grow from row to row
C27_AppendedInChronologicalOrder ==
    call'.handler = "syncDailyTotals"
    => /\ \A i \in WrittenTotalsRows : i > Len(totalsSheet)
       /\ \A i, j \in WrittenTotalsRows :
            i < j => DayOfName(totalsSheet'[i].date) < DayOfName(totalsSheet'[j].date)
       /\ \A i, j \in DOMAIN call'.result.attempted :
            i < j => DayOfName(call'.result.attempted[i])
                       < DayOfName(call'.result.attempted[j])

C28_ColumnSyncContinuesAfterStop ==
    [][(/\ teeRun.handler = "syncTeeFormulasColumn" /\ teeRun.timedOut
        /\ teeRun.processed # <<>>
        /\ teeRun'.handler = "syncTeeFormulasColumn" /\ teeRun'.attempted # <<>>)
       => /\ teeRun'.attempted[1] \notin Range(teeRun.processed)
          /\ \A n \in Range(teeRun.sheetsToProcess) \ Range(teeRun.attempted) :
               teeRun'.timedOut \/ n \in Range(teeRun'.attempted)]_vars

-----------------------------------------------------------------------------
(* Properties of the extraction of races from a historical sheet *)

ExtractedRaces == call.result.races

\* The blocks of the sheet of the request whose header is RACE 1 or RACE 2
EarlyRaceBlocks ==
    {b \in DOMAIN request.headers : request.headers[b] \in {RaceHeader(1), RaceHeader(2)}}

\* C29: extractRaceDataFromHistoricalSheet never emits a race whose race
\* number is below 3: the blocks headed RACE 1 or RACE 2 are skipped, none of
\* them contributes a race or a race id to the result.
C29_NoRaceBelowThree ==
    call.handler = "extractRaceDataFromHistoricalSheet"
      => /\ \A i \in DOMAIN ExtractedRaces :
                parseIntOrNaN(ExtractedRaces[i].race_number).value >= MIN_RACE_NUMBER
         /\ \A b \in EarlyRaceBlocks :
                \A i \in DOMAIN ExtractedRaces : ExtractedRaces[i].block # b
         /\ Len(call.result.raceIds)
              = Cardinality({b \in DOMAIN request.headers \ EarlyRaceBlocks :
                               \E i \in DOMAIN ExtractedRaces : ExtractedRaces[i].block = b})

-----------------------------------------------------------------------------
(* Properties of the merge of entries into a race block *)

\* The rows of the block of the request that hold a horse number
OccupiedRows == {i \in DOMAIN request.rows : request.rows[i].horseNumber # Blank}

\* C30: appendRaceEntriesToSheet_ adds entries without touching existing
\* ones: whatever the block held before, every row that held a horse number
\* has the same five cell values after the call.
C30_OccupiedRowsKeepTheirValues ==
    call.handler = "appendRaceEntriesToSheet_"
      => \A i \in OccupiedRows : call.result[i] = request.rows[i]

-----------------------------------------------------------------------------
(* Properties of the DATABASE entries table under race ids that parse alike *)

\* The (track code, date, race number, horse number) of row i of the entries
\* table, the first three as parseRaceIdComponents_ reads them
ParsedEntryKey(i) ==
    [components |-> parseRaceIdComponents_(databaseSheet.A_F[i].race_id),
     horse_number |-> databaseSheet.A_F[i].horse_number]

\* C31: after any sequence of syncDatabaseSheetForDate_ calls the entries
\* table of DATABASE holds at most one row per (track code, date, race number,
\* horse number) as parseRaceIdComponents_ reads the race id: two race ids
\* that parse to the same components are not both stored for the same horse.
C31_OneRowPerParsedKey ==
    \A i, j \in DOMAIN databaseSheet.A_F :
        (i # j /\ ParsedEntryKey(i).components.matched)
          => ParsedEntryKey(i) # ParsedEntryKey(j)

-----------------------------------------------------------------------------
(* Properties of the dated sheets that processRoiHistorical fills *)

\* The race number of the race id of row i of the entries table
RowRace(sheet, i) == matchDateAndRace_(sheet.A_F[i].race_id).raceNumber

\* C32: every row of the entries table that processRoiHistorical flags as
\* extracted has been written to the dated sheet of its date: after the
\* flagging the block of the race of the row holds a row with its horse number.
C32_FlaggedRowsAreOnTheirSheet ==
    [][RoiCall
         => \A i \in FlaggedRows(databaseSheet') \ FlaggedRows(databaseSheet) :
               databaseSheet.A_F[i].horse_number
                 \in HorsesOnSheet(allSheets', sheetBlocks',
                                   formatSheetName(RowDate(databaseSheet, i)),
                                   RowRace(databaseSheet, i))]_vars

\* The horse numbers that the rows of DATABASE hold for a race of a date
HorsesInDatabase(sheet, d, r) ==
    {sheet.A_F[i].horse_number :
        i \in {j \in DOMAIN sheet.A_F : RowDate(sheet, j) = d /\ RowRace(sheet, j) = r}}

\* C33: after processRoiHistorical has processed a date without error, the
\* race blocks of the dated sheet of the date hold only entries of that date
\* taken from DATABASE, none that the TEE template held for another date,
\* whether the sheet was copied from TEE in this invocation or existed.
C33_DatedSheetHoldsOnlyItsDate ==
    [][RoiCall
         => \A d \in Range(roiRun'.processed) \ Range(roiRun'.raceErrors) :
               \A r \in RaceNumbers :
                  HorsesOnSheet(allSheets', sheetBlocks', formatSheetName(d), r)
                    \subseteq HorsesInDatabase(databaseSheet, d, r)]_vars

-----------------------------------------------------------------------------
(* Properties of the ROI extraction under executions that the host ends *)

\* The rows of the block of a race on a sheet
BlockRowsOf(n, r) == sheetBlocks[n][r].rows

\* No race block of a sheet holds a horse number in two rows
NoHorseInTwoRows ==
    \A n \in Range(allSheets), r \in RaceNumbers :
       \A i, j \in DOMAIN BlockRowsOf(n, r) :
          (i # j /\ BlockRowsOf(n, r)[i].horseNumber # Blank)
            => BlockRowsOf(n, r)[i].horseNumber # BlockRowsOf(n, r)[j].horseNumber

\* C34: when the host ends an invocation of processRoiHistorical after
\* processDate_ wrote the entries of a date and before the rows were flagged,
\* the next invocation writes none of these entries a second time: no race
\* block of a dated sheet ever holds the same horse number in two rows.
C34_CutOffWritesNoHorseTwice == NoHorseInTwoRows

\* The invocation after a cut-off has processed and flagged the rows of the
\* first date, whose sheet the invocation that was cut off had filled
C34_Witness ==
    /\ roiRun.handler = "processRoiHistorical"
    /\ roiRun.previous.handler = "processRoiHistorical"
    /\ roiRun.previous.cutOff
    /\ ~ roiRun.cutOff
    /\ removeDashes(TARGET_DATE_1) \in Range(roiRun.processed)
    /\ Len(BlockRowsOf(DATED_SHEET_1, 3)) = 2
    /\ FlaggedRows(databaseSheet) = DOMAIN databaseSheet.A_F

-----------------------------------------------------------------------------
(* Properties of the rows that a write of race entries reaches *)

\* The rows below the 16 rows of the block are as they were
RowsBeyondBlockKept(before, after) ==
    \A i \in DOMAIN after :
       i > ROI_MAX_HORSES => (i \in DOMAIN before /\ after[i] = before[i])

\* C35: every write of race entries (writeRaceBlockToTee_,
\* writeRaceEntriesToSheet_, appendRaceEntriesToSheet_) stays inside the 16
\* rows that start two rows below the race header: whatever DATABASE holds,
\* no row beyond the block is modified.
C35_WritesStayInsideTheBlock ==
    call.handler \in {"writeRaceBlockToTee_", "writeRaceEntriesToSheet_",
                      "appendRaceEntriesToSheet_"}
      => RowsBeyondBlockKept(request.rows, call.result)

-----------------------------------------------------------------------------
(* Properties of the retries of the batch jobs *)

\* C36: a dated sheet whose appendTotalsRow_ call failed during a run of
\* syncDailyTotals, at whatever step of the call, is attempted again by the
\* next run, so that every row of TOTALS that carries a date in column A
\* comes to carry its formulas in columns B-E.
C36_FailedSheetIsAttemptedAgain ==
    [][(/\ batch = "DAILY_TOTALS"
        /\ call.handler = "syncDailyTotals"
        /\ call'.handler = "syncDailyTotals")
         => \A k \in DOMAIN call.result.errors :
               call.result.errors[k].date \in Range(call'.result.attempted)]_vars


\* The dates the next call of runCatchUpRetrieval would process when the day
\* before it is yesterday
NextCatchUpDates(yesterday) ==
    IsoDates(CatchUpDates(findLastInputtedDate_(databaseSheet, getTrackCodeFromDatabaseSheet_),
                          DateOfToken(removeDashes(yesterday))))

\* C37: after a call of runCatchUpRetrieval every date whose sync failed in
\* it is a date a later call processes again: there is a day of the later
\* call for which the date is in its list, also when the sync of a later
\* date succeeded in the same call
C37_FailedDateIsProcessedAgain ==
    (batch = "CATCH_UP" /\ call.handler = "runCatchUpRetrieval" /\ ~ call.threw)
      => \A k \in DOMAIN call.result.results :
            ~ call.result.results[k].success
              => \E yesterday \in Range(CatchUpDays) :
                    call.result.results[k].date \in Range(NextCatchUpDates(yesterday))


\* C38: under repeated invocations of ingestAllHistoricalSheets every sheet
\* whose ingestion succeeds whenever it is attempted is eventually marked as
\* ingested, also when other sheets fail on every attempt
C38_GoodSheetsAreEventuallyMarked ==
    <>(\A n \in IngestableSheets : n \notin backend.rejects => isSheetIngested(ag2[n]))

====
